---- MODULE Spec2Model ----
(***************************************************************************)
(* A model of the PEF linker (lld/PEF): the global symbol table, the       *)
(* shared-library export lookup, and the link() pipeline of the driver.    *)
(*                                                                         *)
(* The specifications share the variables:                                 *)
(*   SpecSymtab  the SymbolTable class driven by arbitrary sequences of    *)
(*               addDefined / addUndefined / addImported calls;            *)
(*   Spec        one run of link(): read the inputs, load the libraries,   *)
(*               resolve imports, report, lay out, write;                  *)
(*   SpecLayout  the layout and writing steps of link() for two object     *)
(*               files whose section sizes, container lengths and          *)
(*               alignments range over small sets, under several base      *)
(*               addresses.                                                *)
(***************************************************************************)
EXTENDS Integers, Sequences, FiniteSets, TLC

(***************************************************************************)
(* Bounds of the model.                                                    *)
(***************************************************************************)
MaxErrors == 1      \* SpecSymtab: errors reported before the API driver stops
MaxInputs == 2      \* Spec: object files on the command line
MaxLibs == 2        \* Spec: -l libraries on the command line
MaxWeakLibs == 1    \* Spec: --weak-l libraries on the command line
MaxAlignment == 5   \* SpecLayout: largest alignment exponent of an input section
MaxBase == 16       \* SpecLayout: largest --base-code value
MaxNameLen == 28
MaxPosition == 8
MaxBufferSize == 200
MaxSymbolIndex == 2
MaxExports == 3
MaxPower == 2

(***************************************************************************)
(* Symbol names are byte strings.                                          *)
(***************************************************************************)
NameMain == <<109, 97, 105, 110>>       \* "main"
NameFoo == <<102, 111, 111>>            \* "foo"
NameBar == <<98, 97, 114>>              \* "bar"
NameOpt == <<111, 112, 116>>            \* "opt"

NULL == 0

(***************************************************************************)
(* llvm/BinaryFormat/PEF.h                                                 *)
(***************************************************************************)
kPEFCodeSection == 0
kPEFUnpackedDataSection == 1
kPEFPatternDataSection == 2
kPEFConstantSection == 3
kPEFLoaderSection == 4
kPEFExecutableDataSection == 6

kPEFCodeSymbol == 0
kPEFDataSymbol == 1
kPEFTVectorSymbol == 2
kPEFTOCSymbol == 3
kPEFGlueSymbol == 4

kPEFRelocBySectC == 32          \* 0x20
kPEFRelocBySectD == 33          \* 0x21
kPEFRelocSmSetSectC == 41       \* 0x29
kPEFRelocSmSetSectD == 42       \* 0x2A
kPEFRelocSmByImport == 43       \* 0x2B
kPEFRelocSetPosition == 72      \* 0x48
kPEFRelocLgByImport == 82       \* 0x52

kFirstIndexMask == 262144       \* 0x3FFFF + 1: first index is the low 18 bits
kChainCountShift == 18
kChainCountMask == 16384        \* 0x3FFF + 1: chain count is 14 bits

Pow2(n) == 2 ^ n

getExportedSymbolClass(ClassAndName) == ClassAndName \div Pow2(24)
getExportedSymbolNameOffset(ClassAndName) == ClassAndName % Pow2(24)
composeExportedSymbol(Class, NameOffset) == Class * Pow2(24) + (NameOffset % Pow2(24))

\* ImportedSymbol.ClassAndName: class in the high 4 bits, name offset in the
\* low 28 bits.
getImportedSymbolClass(ClassAndName) == ClassAndName \div Pow2(28)
getImportedSymbolNameOffset(ClassAndName) == ClassAndName % Pow2(28)
getHashSlotChainCount(Value) == (Value \div Pow2(kChainCountShift)) % kChainCountMask
getHashSlotFirstIndex(Value) == Value % kFirstIndexMask
composeHashSlot(ChainCount, FirstIndex) ==
    (ChainCount % kChainCountMask) * Pow2(kChainCountShift) + (FirstIndex % kFirstIndexMask)

(***************************************************************************)
(* Symbols.h: a symbol object.  One record shape for the three classes;    *)
(* the fields a class does not have hold 0 / FALSE.                        *)
(***************************************************************************)
DefinedKind == "Defined"
UndefinedKind == "Undefined"
ImportedKind == "Imported"

MakeDefined(name, file, value, sectionIndex, symbolClass) ==
    [kind |-> DefinedKind, name |-> name, file |-> file, value |-> value,
     sectionIndex |-> sectionIndex, symbolClass |-> symbolClass, weak |-> FALSE,
     virtualAddress |-> 0]

MakeUndefined(name, file, symbolClass) ==
    [kind |-> UndefinedKind, name |-> name, file |-> file, value |-> 0,
     sectionIndex |-> 0, symbolClass |-> symbolClass, weak |-> FALSE,
     virtualAddress |-> 0]

MakeImported(name, lib, symbolClass, weak) ==
    [kind |-> ImportedKind, name |-> name, file |-> lib, value |-> 0,
     sectionIndex |-> 0, symbolClass |-> symbolClass, weak |-> weak,
     virtualAddress |-> 0]

\* Symbol::isDefined: the test every add* method branches on.
isDefined(sym) == sym.kind = DefinedKind
isUndefined(sym) == sym.kind = UndefinedKind
isImported(sym) == sym.kind = ImportedKind

(***************************************************************************)
(* SymbolTable.  A table is [symMap, symVector, arena]: symMap maps a name *)
(* to a pointer, symVector lists pointers in insertion order, and arena is *)
(* the sequence of every symbol object make<> has created (a pointer is an *)
(* index into it; replaced objects stay allocated).                        *)
(***************************************************************************)
EmptyTable == [symMap |-> <<>>, symVector |-> <<>>, arena |-> <<>>]

MapPut(m, k, v) == [x \in (DOMAIN m) \cup {k} |-> IF x = k THEN v ELSE m[x]]

\* SymbolTable::insert: despite its name, a lookup.
insert(t, name) == IF name \in DOMAIN t.symMap THEN t.symMap[name] ELSE NULL

\* The loop "for i: if (symVector[i] == existing) { symVector[i] = p; break; }".
ReplaceFirst(vec, existing, p) ==
    IF \E i \in 1..Len(vec) : vec[i] = existing
    THEN LET first == CHOOSE i \in 1..Len(vec) :
                        /\ vec[i] = existing
                        /\ \A j \in 1..(i - 1) : vec[j] # existing
         IN  [vec EXCEPT ![first] = p]
    ELSE vec

\* The tail of each add* method for a name not in the table.
PushNew(t, name, sym) ==
    LET p == Len(t.arena) + 1
    IN  [symMap |-> MapPut(t.symMap, name, p),
         symVector |-> Append(t.symVector, p),
         arena |-> Append(t.arena, sym)]

\* Mutant of ReplaceExisting: the new object is appended to symVector and the
\* replaced one is left where it was.
ReplaceExisting_Append(t, existing, sym) ==
    LET existingName == t.arena[existing].name
        p == Len(t.arena) + 1
    IN  [symMap |-> MapPut(t.symMap, existingName, p),
         symVector |-> Append(t.symVector, p),
         arena |-> Append(t.arena, sym)]

\* The "was undefined, now resolved" branch of addDefined and addImported.
ReplaceExisting(t, existing, sym) ==
    LET existingName == t.arena[existing].name
        p == Len(t.arena) + 1
    IN  [symMap |-> MapPut(t.symMap, existingName, p),
         symVector |-> ReplaceFirst(t.symVector, existing, p),
         arena |-> Append(t.arena, sym)]

DuplicateError(name) == [kind |-> "duplicate symbol", name |-> name, file |-> ""]

\* Mutant of addDefined: a later definition replaces an earlier one.
addDefined_LastWins(t, allowUndefined, name, file, value, sectionIndex, symbolClass) ==
    LET existing == insert(t, name)
        def == MakeDefined(name, file, value, sectionIndex, symbolClass)
    IN  IF existing # NULL
        THEN [t |-> ReplaceExisting(t, existing, def),
              errs |-> IF isDefined(t.arena[existing]) /\ ~allowUndefined
                       THEN <<DuplicateError(name)>> ELSE <<>>,
              ret |-> Len(t.arena) + 1]
        ELSE [t |-> PushNew(t, name, def), errs |-> <<>>, ret |-> Len(t.arena) + 1]

\* SymbolTable::addDefined.  Result: the table, the errors reported, the
\* pointer returned.
addDefined(t, allowUndefined, name, file, value, sectionIndex, symbolClass) ==
    LET existing == insert(t, name)
        def == MakeDefined(name, file, value, sectionIndex, symbolClass)
    IN  IF existing # NULL
        THEN IF isDefined(t.arena[existing])
             THEN [t |-> t,
                   errs |-> IF ~allowUndefined THEN <<DuplicateError(name)>> ELSE <<>>,
                   ret |-> existing]
             ELSE [t |-> ReplaceExisting(t, existing, def),
                   errs |-> <<>>,
                   ret |-> Len(t.arena) + 1]
        ELSE [t |-> PushNew(t, name, def), errs |-> <<>>, ret |-> Len(t.arena) + 1]

\* A variant in which a reference met after the definition turns the entry
\* back into an Undefined one.
addUndefined_Demotes(t, name, file, symbolClass) ==
    LET existing == insert(t, name)
    IN  IF existing # NULL
        THEN [t |-> ReplaceExisting(t, existing, MakeUndefined(name, file, symbolClass)),
              errs |-> <<>>, ret |-> existing, castOk |-> TRUE]
        ELSE [t |-> PushNew(t, name, MakeUndefined(name, file, symbolClass)),
              errs |-> <<>>, ret |-> Len(t.arena) + 1, castOk |-> TRUE]

\* SymbolTable::addUndefined.  For an existing symbol that is not Defined the
\* method returns cast<Undefined>(existing); on an Imported symbol that cast
\* is invalid (castOk = FALSE): an assertion failure in a build with
\* assertions, the pointer itself otherwise.
addUndefined(t, name, file, symbolClass) ==
    LET existing == insert(t, name)
    IN  IF existing # NULL
        THEN IF isDefined(t.arena[existing])
             THEN [t |-> t, errs |-> <<>>, ret |-> NULL, castOk |-> TRUE]
             ELSE [t |-> t, errs |-> <<>>, ret |-> existing,
                   castOk |-> isUndefined(t.arena[existing])]
        ELSE [t |-> PushNew(t, name, MakeUndefined(name, file, symbolClass)),
              errs |-> <<>>, ret |-> Len(t.arena) + 1, castOk |-> TRUE]

\* Mutant of addImported: an Undefined entry is not replaced; the import is
\* pushed as if the name were new.
addImported_PushOnUndefined(t, name, lib, symbolClass, weak) ==
    LET existing == insert(t, name)
        imp == MakeImported(name, lib, symbolClass, weak)
    IN  IF existing # NULL /\ ~isUndefined(t.arena[existing])
        THEN [t |-> t, errs |-> <<>>,
              ret |-> IF isDefined(t.arena[existing]) THEN NULL ELSE existing]
        ELSE [t |-> PushNew(t, name, imp), errs |-> <<>>, ret |-> Len(t.arena) + 1]

\* SymbolTable::addImported.
addImported(t, name, lib, symbolClass, weak) ==
    LET existing == insert(t, name)
        imp == MakeImported(name, lib, symbolClass, weak)
    IN  IF existing # NULL
        THEN IF isDefined(t.arena[existing])
             THEN [t |-> t, errs |-> <<>>, ret |-> NULL]
             ELSE IF isImported(t.arena[existing])
             THEN [t |-> t, errs |-> <<>>, ret |-> existing]
             ELSE [t |-> ReplaceExisting(t, existing, imp),
                   errs |-> <<>>,
                   ret |-> Len(t.arena) + 1]
        ELSE [t |-> PushNew(t, name, imp), errs |-> <<>>, ret |-> Len(t.arena) + 1]

\* SymbolTable::find
find(t, name) == IF name \in DOMAIN t.symMap THEN t.symMap[name] ELSE NULL

SelectKind(t, kind) ==
    SelectSeq(t.symVector, LAMBDA p : t.arena[p].kind = kind)

getDefinedSymbols(t) == SelectKind(t, DefinedKind)
getUndefinedSymbols(t) == SelectKind(t, UndefinedKind)
getImportedSymbols(t) == SelectKind(t, ImportedKind)

(***************************************************************************)
(* 32-bit arithmetic.  A word is [hi, lo], the two 16-bit halves of an     *)
(* int32_t / uint32_t, so that shifts, subtraction and xor wrap as the     *)
(* machine's do.                                                           *)
(***************************************************************************)
\* The exclusive or of the low n bits of a and b, bit by bit.
RECURSIVE XorBits(_, _, _)
XorBits(a, b, n) ==
    IF n = 0 THEN 0
    ELSE LET bit == 2 ^ (n - 1)
         IN  XorBits(a, b, n - 1)
               + bit * ((((a \div bit) % 2) + ((b \div bit) % 2)) % 2)

Xor16(a, b) == XorBits(a, b, 16)

Word(hi, lo) == [hi |-> hi, lo |-> lo]

\* hashValue << 1
Shl1(h) == Word(((h.hi * 2) + (h.lo \div 32768)) % 65536, (h.lo * 2) % 65536)

\* A variant of the shift that fills the top with zeros (a logical shift).
Sar16_Logical(h) == Word(0, h.hi)

\* hashValue >> 16 on an int32_t: an arithmetic shift, the sign fills the top.
Sar16(h) == Word(IF h.hi >= 32768 THEN 65535 ELSE 0, h.hi)

Sub32(a, b) ==
    LET borrow == IF a.lo < b.lo THEN 1 ELSE 0
    IN  Word((a.hi - b.hi - borrow) % 65536, (a.lo - b.lo) % 65536)

Xor32(a, b) == Word(Xor16(a.hi, b.hi), Xor16(a.lo, b.lo))

\* The loop body of computePEFHash:
\*   hashValue = ((hashValue << 1) - (hashValue >> 16)) ^ (uint8_t) c
hashStep(hashValue, c) ==
    Xor32(Sub32(Shl1(hashValue), Sar16(hashValue)), Word(0, c % 256))

\* The loop of computePEFHash from the i-th byte on.
RECURSIVE HashLoop(_, _, _)
HashLoop(name, i, hashValue) ==
    IF i > Len(name) THEN hashValue
    ELSE CHOOSE h \in {HashLoop(name, i + 1, v) :
                          v \in {hashStep(hashValue, name[i])}} : TRUE

\* computePEFHash: (length << 16) | ((hash ^ (hash >> 16)) & 0xFFFF).
finalHash(length, hashValue) ==
    (length % 65536) * 65536 + Xor32(hashValue, Sar16(hashValue)).lo

computePEFHash(name) == finalHash(Len(name), HashLoop(name, 1, Word(0, 0)))

(***************************************************************************)
(* The loader section of a PEF container, as the reader sees it:           *)
(*   ExportHashTablePower, ExportedSymbolCount  header fields              *)
(*   slots    the hash slot table, one word per slot                       *)
(*   keys     the key table, one hash word per exported symbol             *)
(*   syms     the exported symbol table [ClassAndName, SymbolValue,        *)
(*            SectionIndex]                                                *)
(*   strings  the loader string table, NUL-terminated names                *)
(* A table shorter than the header announces is one that runs past the end *)
(* of the loader data.                                                     *)
(***************************************************************************)

\* PEFObjectFile::getLoaderString, the offset taken from the start of the
\* string table.  ok = FALSE stands for the Error results.
StringError == [ok |-> FALSE, str |-> <<>>]

getLoaderString(strings, Offset) ==
    IF Offset >= Len(strings) THEN StringError
    ELSE IF \A k \in (Offset + 1)..Len(strings) : strings[k] # 0 THEN StringError
    ELSE LET End == CHOOSE k \in (Offset + 1)..Len(strings) :
                        /\ strings[k] = 0
                        /\ \A j \in (Offset + 1)..(k - 1) : strings[j] # 0
         IN  [ok |-> TRUE, str |-> SubSeq(strings, Offset + 1, End - 1)]

\* findExport returns nullptr.
NotFound == [found |-> FALSE, lastSymbolClass |-> 0]

\* A variant of the chain scan that takes an equal hash word for a match,
\* without comparing the names.
RECURSIVE ScanChain_HashOnly(_, _, _, _, _, _)
ScanChain_HashOnly(loader, name, fullHashWord, firstIndex, chainCount, i) ==
    IF i >= chainCount THEN NotFound
    ELSE IF firstIndex + i >= loader.ExportedSymbolCount THEN NotFound
    ELSE IF loader.keys[firstIndex + i + 1] # fullHashWord
    THEN ScanChain_HashOnly(loader, name, fullHashWord, firstIndex, chainCount, i + 1)
    ELSE [found |-> TRUE,
          lastSymbolClass |->
              getExportedSymbolClass(loader.syms[firstIndex + i + 1].ClassAndName)]

\* The chain scan of findExport from position i of the chain on.
RECURSIVE ScanChain(_, _, _, _, _, _)
ScanChain(loader, name, fullHashWord, firstIndex, chainCount, i) ==
    IF i >= chainCount THEN NotFound
    ELSE
      LET keyIndex == firstIndex + i
          continue == ScanChain(loader, name, fullHashWord, firstIndex, chainCount, i + 1)
      IN  IF keyIndex >= loader.ExportedSymbolCount THEN NotFound
          ELSE IF keyIndex + 1 > Len(loader.keys) THEN NotFound
          ELSE IF loader.keys[keyIndex + 1] # fullHashWord THEN continue
          ELSE IF keyIndex + 1 > Len(loader.syms) THEN NotFound
          ELSE
            LET classAndName == loader.syms[keyIndex + 1].ClassAndName
                nameOffset == getExportedSymbolNameOffset(classAndName)
                nameOrErr == getLoaderString(loader.strings, nameOffset)
            IN  IF ~nameOrErr.ok THEN continue
                ELSE IF nameOrErr.str # name THEN continue
                ELSE [found |-> TRUE,
                      lastSymbolClass |-> getExportedSymbolClass(classAndName)]

\* Mutant of findExport: the chain of slot 0 is scanned whatever the hash.
findExport_SlotZero(lib, name) ==
    LET loader == lib.loader
    IN  IF loader.ExportedSymbolCount = 0 \/ Len(loader.slots) = 0 THEN NotFound
        ELSE ScanChain(loader, name, computePEFHash(name),
                       getHashSlotFirstIndex(loader.slots[1]),
                       getHashSlotChainCount(loader.slots[1]), 0)

\* SharedLibraryFile::findExport: whether the marker is returned, and the
\* class the lookup leaves in lastSymbolClass.
findExport(lib, name) ==
    LET loader == lib.loader
    IN  IF loader.ExportedSymbolCount = 0 THEN NotFound
        ELSE
          LET fullHashWord == computePEFHash(name)
              hashTableSize == Pow2(loader.ExportHashTablePower)
              slotIndex == fullHashWord % hashTableSize
          IN  IF slotIndex + 1 > Len(loader.slots) THEN NotFound
              ELSE
                LET slotValue == loader.slots[slotIndex + 1]
                    chainCount == getHashSlotChainCount(slotValue)
                    firstIndex == getHashSlotFirstIndex(slotValue)
                IN  IF chainCount = 0 THEN NotFound
                    ELSE ScanChain(loader, name, fullHashWord, firstIndex, chainCount, 0)

(***************************************************************************)
(* Shared libraries on disk.  A library file is built from its list of     *)
(* exports the way a PEF producer lays out the export tables: the exports  *)
(* grouped by hash slot, each slot holding its chain length and the index  *)
(* of its first export, the key table holding the full hash words.         *)
(***************************************************************************)
RECURSIVE Concat(_)
Concat(seqs) == IF seqs = <<>> THEN <<>> ELSE Head(seqs) \o Concat(Tail(seqs))

SlotOfName(name, power) == computePEFHash(name) % Pow2(power)

\* The exports in export-table order: by slot, and within a slot as listed.
ExportOrder(exports, power) ==
    Concat([s \in 1..Pow2(power) |->
              SelectSeq(exports, LAMBDA e : SlotOfName(e.name, power) = s - 1)])

\* The string table offset of the i-th name.
RECURSIVE NameOffsetOf(_, _)
NameOffsetOf(exports, i) ==
    IF i = 1 THEN 0 ELSE NameOffsetOf(exports, i - 1) + Len(exports[i - 1].name) + 1

\* The key table: the full hash word of each export.
KeysOf(ordered) == [i \in 1..Len(ordered) |-> computePEFHash(ordered[i].name)]

\* The tables for exports already in export-table order.
BuildLoader(ordered, keys, power) ==
    [ExportedSymbolCount |-> Len(ordered),
         ExportHashTablePower |-> power,
         slots |-> [s \in 1..Pow2(power) |->
                      composeHashSlot(
                        Cardinality({i \in 1..Len(keys) : keys[i] % Pow2(power) = s - 1}),
                        Cardinality({i \in 1..Len(keys) : keys[i] % Pow2(power) < s - 1}))],
         keys |-> keys,
         syms |-> [i \in 1..Len(ordered) |->
                     [ClassAndName |-> composeExportedSymbol(ordered[i].cls,
                                                             NameOffsetOf(ordered, i)),
                      SymbolValue |-> ordered[i].value,
                      SectionIndex |-> ordered[i].sectionIndex]],
         strings |-> Concat([i \in 1..Len(ordered) |-> ordered[i].name \o <<0>>])]

LoaderOf(exports, power) ==
    BuildLoader(ExportOrder(exports, power), KeysOf(ExportOrder(exports, power)), power)

Export(name, cls, value, sectionIndex) ==
    [name |-> name, cls |-> cls, value |-> value, sectionIndex |-> sectionIndex]

(***************************************************************************)
(* Object files on disk.  A PEF container is its section headers and its   *)
(* loader section; the loader section of an object file also carries the   *)
(* imported symbol table (names) and the relocation headers, each with the *)
(* 16-bit instructions it covers.                                          *)
(***************************************************************************)
SectionHeader(kind, totalLength, containerLength, alignment) ==
    [SectionKind |-> kind, TotalLength |-> totalLength,
     ContainerLength |-> containerLength, Alignment |-> alignment]

RelocHeader(sectionIndex, instrs) == [SectionIndex |-> sectionIndex, instrs |-> instrs]

\* A relocation instruction word: opcode in the top bits, operand in the low 10.
RelocInstr(opcode, operand) == (opcode * 1024 + (operand % 1024)) % 65536

ObjLoaderOf(exports, power, imports, relocs) ==
    LoaderOf(exports, power) @@ [importedSymbols |-> imports, relocHeaders |-> relocs]

\* A file on disk: whether it exists, whether it has the PEF magic, whether
\* PEFObjectFile::create accepts it, and the container.
DiskFile(path, exists, magic, valid, sections, loader) ==
    [path |-> path, exists |-> exists, magic |-> magic, valid |-> valid,
     sections |-> sections, loader |-> loader]

NoLoader == ObjLoaderOf(<<>>, 0, <<>>, <<>>)

\* What is on disk: the object files a command line can name ...
Instr_Import0 == RelocInstr(kPEFRelocSmByImport, 0)
Instr_Import1 == RelocInstr(kPEFRelocSmByImport, 1)

ObjectOnDisk(path) ==
    CASE path = "main.o" ->
           \* defines main; refers to foo and opt
           DiskFile(path, TRUE, TRUE, TRUE,
                    <<SectionHeader(kPEFCodeSection, 16, 16, 2),
                      SectionHeader(kPEFUnpackedDataSection, 8, 8, 3),
                      SectionHeader(kPEFLoaderSection, 0, 96, 4)>>,
                    ObjLoaderOf(<<Export(NameMain, kPEFCodeSymbol, 0, 0)>>, 0,
                                <<NameFoo, NameOpt>>,
                                <<RelocHeader(0, <<Instr_Import0, Instr_Import1>>)>>))
      [] path = "foo.o" ->
           \* defines foo and bar; its loader section sits between the others
           DiskFile(path, TRUE, TRUE, TRUE,
                    <<SectionHeader(kPEFCodeSection, 12, 12, 2),
                      SectionHeader(kPEFLoaderSection, 0, 96, 4),
                      SectionHeader(kPEFConstantSection, 6, 4, 1)>>,
                    ObjLoaderOf(<<Export(NameFoo, kPEFTVectorSymbol, 4, 0),
                                  Export(NameBar, kPEFDataSymbol, 2, 2)>>, 1,
                                <<>>, <<>>))
      [] path = "dup.o" ->
           \* defines main once more; refers to bar
           DiskFile(path, TRUE, TRUE, TRUE,
                    <<SectionHeader(kPEFCodeSection, 8, 8, 2),
                      SectionHeader(kPEFLoaderSection, 0, 80, 4)>>,
                    ObjLoaderOf(<<Export(NameMain, kPEFGlueSymbol, 4, 0)>>, 0,
                                <<NameBar>>,
                                <<RelocHeader(0, <<Instr_Import0>>)>>))
      [] path = "trunc.o" ->
           \* PEF magic, but PEFObjectFile::create rejects it
           DiskFile(path, TRUE, TRUE, FALSE, <<>>, NoLoader)
      [] path = "junk" ->
           \* not a PEF file
           DiskFile(path, TRUE, FALSE, FALSE, <<>>, NoLoader)
      [] OTHER ->
           \* no such file
           DiskFile(path, FALSE, FALSE, FALSE, <<>>, NoLoader)

InputPaths == {"main.o", "foo.o", "dup.o", "trunc.o", "junk", "gone.o"}

\* The content of each path, computed once.
ObjectCatalogue == [path \in InputPaths |-> ObjectOnDisk(path)]

\* ... and the shared libraries the search directories hold.
LibraryOnDisk(path) ==
    CASE path = "LibA" ->
           DiskFile(path, TRUE, TRUE, TRUE,
                    <<SectionHeader(kPEFLoaderSection, 0, 112, 4)>>,
                    ObjLoaderOf(<<Export(NameFoo, kPEFTVectorSymbol, 0, 0)>>, 1, <<>>, <<>>))
      [] path = "LibB" ->
           DiskFile(path, TRUE, TRUE, TRUE,
                    <<SectionHeader(kPEFLoaderSection, 0, 112, 4)>>,
                    ObjLoaderOf(<<Export(NameOpt, kPEFDataSymbol, 0, 1),
                                  Export(NameFoo, kPEFCodeSymbol, 8, 0)>>, 0, <<>>, <<>>))
      [] path = "LibW" ->
           DiskFile(path, TRUE, TRUE, TRUE,
                    <<SectionHeader(kPEFLoaderSection, 0, 96, 4)>>,
                    ObjLoaderOf(<<Export(NameMain, kPEFCodeSymbol, 0, 0),
                                  Export(NameOpt, kPEFTVectorSymbol, 4, 0)>>, 1, <<>>, <<>>))
      [] OTHER ->
           DiskFile(path, FALSE, FALSE, FALSE, <<>>, NoLoader)

LibraryNames == {"LibA", "LibB", "NoLib"}
WeakLibraryNames == {"LibW", "NoWeak"}

LibraryCatalogue == [path \in LibraryNames \cup WeakLibraryNames |-> LibraryOnDisk(path)]

\* searchLibrary: the path found for a library name, "" if none.
searchLibrary(name) == IF LibraryCatalogue[name].exists THEN name ELSE ""

\* The memory buffer an InputFile object holds.
BufferOf(file) ==
    IF file.kind = "ObjectKind" THEN ObjectCatalogue[file.mb] ELSE LibraryCatalogue[file.mb]

\* PEFObjectFile::getSymbolType folded with the class choice of ObjFile::parse:
\* ST_Data symbols get class 1, every other symbol class 0.
ParsedSymbolClass(SymClass) ==
    IF SymClass \in {kPEFDataSymbol, kPEFTOCSymbol} THEN 1 ELSE 0

\* PEFObjectFile::getSymbolSection: an index outside the container's sections
\* yields section 0.
ParsedSectionIndex(SectionIndex, SectionCount) ==
    IF SectionIndex >= 0 /\ SectionIndex < SectionCount THEN SectionIndex ELSE 0

\* PEFObjectFile::getImportedSymbolName: the name of the Index-th entry of
\* the file's imported symbol table.
getImportedSymbolName(loader, Index) ==
    IF Index < Len(loader.importedSymbols)
    THEN [ok |-> TRUE, str |-> loader.importedSymbols[Index + 1]]
    ELSE StringError

\* PEFObjectFile::getRelocHeader: the i-th relocation header (0-based).
getRelocHeader(loader, i) == loader.relocHeaders[i + 1]

\* PEFObjectFile::getRelocInstructions: the instruction words of a header.
getRelocInstructions(relocHdr) == relocHdr.instrs

\* An error report.
Err(kind, name, file) == [kind |-> kind, name |-> name, file |-> file]

\* ObjFile::parse, first loop: one InputSection per section that is not the
\* loader section, in section order, remembering the section's index.
InputSectionsOf(sections) ==
    LET idxs == SelectSeq([i \in 1..Len(sections) |-> i - 1],
                          LAMBDA i : sections[i + 1].SectionKind # kPEFLoaderSection)
    IN  [k \in 1..Len(idxs) |->
           [index |-> idxs[k], header |-> sections[idxs[k] + 1], relocations |-> <<>>]]

\* ObjFile::parse, second loop from symbol i on: every exported symbol with a
\* readable non-empty name is handed to addDefined.  st = [t, errs].
RECURSIVE ParseSymbols(_, _, _, _, _)
ParseSymbols(st, allowUndefined, disk, file, i) ==
    IF i > disk.loader.ExportedSymbolCount THEN st
    ELSE
      LET Sym == disk.loader.syms[i]
          nameOrErr == getLoaderString(disk.loader.strings,
                                       getExportedSymbolNameOffset(Sym.ClassAndName))
      IN  IF ~nameOrErr.ok
          THEN ParseSymbols([t |-> st.t,
                             errs |-> Append(st.errs, Err("bad symbol name", <<>>, disk.path))],
                            allowUndefined, disk, file, i + 1)
          ELSE IF nameOrErr.str = <<>>
          THEN ParseSymbols(st, allowUndefined, disk, file, i + 1)
          ELSE
            LET r == addDefined(st.t, allowUndefined, nameOrErr.str, file,
                                Sym.SymbolValue,
                                ParsedSectionIndex(Sym.SectionIndex, Len(disk.sections)),
                                ParsedSymbolClass(getExportedSymbolClass(Sym.ClassAndName)))
            IN  ParseSymbols([t |-> r.t, errs |-> st.errs \o r.errs],
                             allowUndefined, disk, file, i + 1)

\* ObjFile::parse, the scan of one header's instructions from word j on
\* (0-based): import references register Undefined symbols.
RECURSIVE ScanInstrs(_, _, _, _, _)
ScanInstrs(t, loader, file, relocs, j) ==
    IF j >= Len(relocs) THEN t
    ELSE
      LET instr == relocs[j + 1]
          opcode == (instr \div 1024) % 64
          operand == instr % 1024
      IN  IF opcode = kPEFRelocSmByImport
          THEN LET symNameOrErr == getImportedSymbolName(loader, operand)
               IN  ScanInstrs(IF symNameOrErr.ok
                              THEN addUndefined(t, symNameOrErr.str, file, 0).t
                              ELSE t,
                              loader, file, relocs, j + 1)
          ELSE IF opcode = kPEFRelocLgByImport
          THEN IF j + 1 < Len(relocs)
               THEN LET importIndex == operand * 65536 + relocs[j + 2]
                        symNameOrErr == getImportedSymbolName(loader, importIndex)
                    IN  ScanInstrs(IF symNameOrErr.ok
                                   THEN addUndefined(t, symNameOrErr.str, file, 0).t
                                   ELSE t,
                                   loader, file, relocs, j + 2)
               ELSE ScanInstrs(t, loader, file, relocs, j + 1)
          ELSE IF opcode = kPEFRelocSetPosition
          THEN ScanInstrs(t, loader, file, relocs, IF j + 1 < Len(relocs) THEN j + 2 ELSE j + 1)
          ELSE ScanInstrs(t, loader, file, relocs, j + 1)

\* ObjFile::parse, third loop from header i on (0-based).
\* st = [t, errs, inputSections].
RECURSIVE ParseRelocs(_, _, _, _)
ParseRelocs(st, disk, file, i) ==
    IF i >= Len(disk.loader.relocHeaders) THEN st
    ELSE
      LET relocHdr == getRelocHeader(disk.loader, i)
          relocInstrs == getRelocInstructions(relocHdr)
      IN  IF relocHdr.SectionIndex < Len(st.inputSections)
          THEN ParseRelocs(
                 [t |-> ScanInstrs(st.t, disk.loader, file, relocInstrs, 0),
                  errs |-> st.errs,
                  inputSections |->
                      [st.inputSections EXCEPT ![relocHdr.SectionIndex + 1].relocations =
                                                   relocInstrs]],
                 disk, file, i + 1)
          ELSE ParseRelocs(
                 [t |-> st.t,
                  errs |-> Append(st.errs, Err("relocation header references invalid section index",
                                               <<>>, disk.path)),
                  inputSections |-> st.inputSections],
                 disk, file, i + 1)

\* An ObjFile object.
ObjectKind == "ObjectKind"
SharedLibraryKind == "SharedLibraryKind"

MakeObjFile(disk, parsed, inputSections) ==
    [kind |-> ObjectKind, mb |-> disk.path, parsed |-> parsed, weak |-> FALSE,
     SectionCount |-> Len(disk.sections), inputSections |-> inputSections]

\* ObjFile::parse for the file that will sit at position `file` of the
\* driver's list.  Result: the table, the errors reported, the file object.
parse(t, allowUndefined, disk, file) ==
    IF ~disk.valid
    THEN [t |-> t, errs |-> <<Err("malformed file", <<>>, disk.path)>>,
          file |-> MakeObjFile(disk, FALSE, <<>>)]
    ELSE
      LET syms == ParseSymbols([t |-> t, errs |-> <<>>], allowUndefined, disk, file, 1)
          rel == ParseRelocs([t |-> syms.t, errs |-> syms.errs,
                              inputSections |-> InputSectionsOf(disk.sections)],
                             disk, file, 0)
      IN  [t |-> rel.t, errs |-> rel.errs,
           file |-> MakeObjFile(disk, TRUE, rel.inputSections)]

(***************************************************************************)
(* Shared library files: createSharedLibraryFile and the import pass.      *)
(***************************************************************************)
MakeSharedLibraryFile(disk, parsed, isWeak) ==
    [kind |-> SharedLibraryKind, mb |-> disk.path, parsed |-> parsed, weak |-> isWeak,
     SectionCount |-> Len(disk.sections), inputSections |-> <<>>]

\* The loop over importLibs for one undefined name, from library k on: the
\* first library whose findExport succeeds supplies the import.
RECURSIVE ResolveOne(_, _, _, _, _)
ResolveOne(t, fileList, libs, symName, k) ==
    IF k > Len(libs) THEN t
    ELSE
      LET lib == libs[k]
          exportedSym == findExport(BufferOf(fileList[lib]), symName)
      IN  IF exportedSym.found
          THEN addImported(t, symName, lib, exportedSym.lastSymbolClass,
                           fileList[lib].weak).t
          ELSE ResolveOne(t, fileList, libs, symName, k + 1)

\* The loop over the undefined symbols collected before the pass.
RECURSIVE ResolveAll(_, _, _, _, _)
ResolveAll(t, fileList, libs, undefs, i) ==
    IF i > Len(undefs) THEN t
    ELSE ResolveAll(ResolveOne(t, fileList, libs, t.arena[undefs[i]].name, 1),
                    fileList, libs, undefs, i + 1)

\* link(), "Phase 2.2": nothing happens unless there are undefined symbols
\* and import libraries.
resolveImports(t, fileList, libs) ==
    LET undefs == getUndefinedSymbols(t)
    IN  IF undefs # <<>> /\ libs # <<>>
        THEN ResolveAll(t, fileList, libs, undefs, 1)
        ELSE t

(***************************************************************************)
(* Layout: output sections, addresses.                                     *)
(***************************************************************************)
alignTo(value, align) == ((value + align - 1) \div align) * align

\* InputSection::getAlignment
getAlignment(isec) == Pow2(isec.header.Alignment)

\* InputSection::getSize
getSize(isec) == isec.header.TotalLength

MakeOutputSection(name, kind) ==
    [name |-> name, kind |-> kind, inputSections |-> <<>>, size |-> 0,
     virtualAddress |-> 0, fileOffset |-> 0, alignment |-> 16]

\* The output section an input section of a given kind is added to (0: none).
OutputIndexOfKind(kind) ==
    IF kind \in {kPEFCodeSection, kPEFExecutableDataSection} THEN 1
    ELSE IF kind \in {kPEFUnpackedDataSection, kPEFPatternDataSection} THEN 2
    ELSE IF kind = kPEFConstantSection THEN 3
    ELSE 0

\* Every input section of every object file, in file order then section
\* order, as [file, index, header, relocations, virtualAddress].
AllInputSections(fileList) ==
    Concat([f \in 1..Len(fileList) |->
              IF fileList[f].kind = ObjectKind
              THEN [k \in 1..Len(fileList[f].inputSections) |->
                      [file |-> f,
                       index |-> fileList[f].inputSections[k].index,
                       header |-> fileList[f].inputSections[k].header,
                       relocations |-> fileList[f].inputSections[k].relocations,
                       virtualAddress |-> 0]]
              ELSE <<>>])

\* "Collect input sections into output sections".
collectSections(fileList) ==
    LET all == AllInputSections(fileList)
        made == <<MakeOutputSection(".text", kPEFCodeSection),
                  MakeOutputSection(".data", kPEFUnpackedDataSection),
                  MakeOutputSection(".rodata", kPEFConstantSection)>>
    IN  [o \in 1..3 |->
           [made[o] EXCEPT !.inputSections =
               SelectSeq(all, LAMBDA isec : OutputIndexOfKind(isec.header.SectionKind) = o)]]

\* OutputSection::finalizeLayout from input section i on, offset being the
\* running offset.  Result: the output section with addresses, size and
\* alignment set.
RECURSIVE finalizeFrom(_, _, _)
finalizeFrom(osec, i, offset) ==
    IF i > Len(osec.inputSections) THEN [osec EXCEPT !.size = offset]
    ELSE
      LET isec == osec.inputSections[i]
          align == getAlignment(isec)
          at == alignTo(offset, align)
      IN  finalizeFrom(
            [osec EXCEPT !.alignment = IF align > @ THEN align ELSE @,
                         !.inputSections[i].virtualAddress = osec.virtualAddress + at],
            i + 1, at + getSize(isec))

finalizeLayout(osec) ==
    IF osec.inputSections = <<>> THEN [osec EXCEPT !.size = 0]
    ELSE finalizeFrom(osec, 1, 0)

\* "Assign virtual addresses to output sections" from output section o on.
RECURSIVE assignAddresses(_, _, _)
assignAddresses(osecs, o, addr) ==
    IF o > Len(osecs) THEN osecs
    ELSE IF osecs[o].inputSections = <<>> THEN assignAddresses(osecs, o + 1, addr)
    ELSE
      LET at == alignTo(addr, osecs[o].alignment)
          done == finalizeLayout([osecs[o] EXCEPT !.virtualAddress = at])
      IN  assignAddresses([osecs EXCEPT ![o] = done], o + 1, at + done.size)

\* A variant that drops the symbol's value: every symbol gets the address of
\* the start of its section.
symbolAddress_NoValue(osecs, sym) ==
    LET hitsIn(o) == SelectSeq(osecs[o].inputSections, LAMBDA isec : isec.index = sym.sectionIndex /\ isec.file = sym.file)
        withHit == SelectSeq([o \in 1..Len(osecs) |-> o], LAMBDA o : hitsIn(o) # <<>>)
    IN  IF sym.sectionIndex < 0 \/ withHit = <<>> THEN sym.virtualAddress
        ELSE hitsIn(withHit[Len(withHit)])[1].virtualAddress

\* "Update symbol virtual addresses": the address of a Defined symbol is the
\* address of the input section with its file and section index plus its
\* value; a symbol with no such section keeps address 0.
symbolAddress(osecs, sym) ==
    LET hitsIn(o) == SelectSeq(osecs[o].inputSections,
                               LAMBDA isec : isec.index = sym.sectionIndex /\ isec.file = sym.file)
        withHit == SelectSeq([o \in 1..Len(osecs) |-> o], LAMBDA o : hitsIn(o) # <<>>)
    IN  IF sym.sectionIndex < 0 \/ withHit = <<>> THEN sym.virtualAddress
        ELSE hitsIn(withHit[Len(withHit)])[1].virtualAddress + sym.value

assignSymbolAddresses(t, osecs) ==
    [t EXCEPT !.arena =
        [p \in 1..Len(t.arena) |->
           IF isDefined(t.arena[p]) /\ \E i \in 1..Len(t.symVector) : t.symVector[i] = p
           THEN [t.arena[p] EXCEPT !.virtualAddress = symbolAddress(osecs, t.arena[p])]
           ELSE t.arena[p]]]

(***************************************************************************)
(* PEFRelocWriter: the relocation instructions of the output are decoded   *)
(* from the instruction words kept with each input section and emitted     *)
(* anew.  Instruction words are 16 bits wide.                               *)
(***************************************************************************)
\* InputSection::getRelocations: the words stored by setRelocations.
getRelocations(isec) == isec.relocations

\* The opcode and operand fields of an instruction word as the decoders
\* read them: "(instr >> 10) & 0x3F" and "instr & 0x3FF".
opcodeOf(instr) == (instr \div 1024) % 64
operandOf(instr) == instr % 1024

emitSetPosition(offset) ==
    <<RelocInstr(kPEFRelocSetPosition, (offset \div 65536) % 1024), offset % 65536>>

emitBySectC(runLength) == <<RelocInstr(kPEFRelocBySectC, runLength)>>

emitBySectD(runLength) == <<RelocInstr(kPEFRelocBySectD, runLength)>>

emitByImport(index) ==
    IF index < 256 THEN <<RelocInstr(kPEFRelocSmByImport, index)>>
    ELSE <<RelocInstr(kPEFRelocLgByImport, (index \div 65536) % 1024), index % 65536>>

emitSetSectC(index) == <<RelocInstr(kPEFRelocSmSetSectC, index)>>

emitSetSectD(index) == <<RelocInstr(kPEFRelocSmSetSectD, index)>>

\* "if (needSetPosition || pos != relocAddress) { emitSetPosition(pos); ... }"
\* followed by the emission of `words` for a fixup covering `bytes` bytes.
emitAt(st, words, bytes) ==
    [st EXCEPT !.instructions =
                   IF st.needSetPosition \/ st.pos # st.relocAddress
                   THEN @ \o emitSetPosition(st.pos) \o words
                   ELSE @ \o words,
               !.needSetPosition = FALSE,
               !.relocAddress = st.pos + bytes,
               !.pos = st.pos + bytes]

\* One turn of the decoding loop of processSection: the instruction at
\* st.i (0-based) of inputRelocs is decoded, st.i moves past it.
decodeOne(st, inputRelocs, isecBase, instr, hasSecond) ==
    IF opcodeOf(instr) = kPEFRelocBySectC
    THEN [emitAt(st, emitBySectC(operandOf(instr)), 4 * (operandOf(instr) + 1))
            EXCEPT !.i = st.i + 1]
    ELSE IF opcodeOf(instr) = kPEFRelocBySectD
    THEN [emitAt(st, emitBySectD(operandOf(instr)), 4 * (operandOf(instr) + 1))
            EXCEPT !.i = st.i + 1]
    ELSE IF opcodeOf(instr) = kPEFRelocSmByImport
    THEN [emitAt(st, emitByImport(operandOf(instr)), 4) EXCEPT !.i = st.i + 1]
    ELSE IF opcodeOf(instr) = kPEFRelocLgByImport
    THEN IF hasSecond
         THEN [emitAt(st, emitByImport(operandOf(instr) * 65536 + inputRelocs[st.i + 2]), 4)
                 EXCEPT !.i = st.i + 2]
         ELSE [emitAt(st, emitByImport(operandOf(instr)), 4) EXCEPT !.i = st.i + 1]
    ELSE IF opcodeOf(instr) = kPEFRelocSetPosition
    THEN IF hasSecond
         THEN [st EXCEPT !.pos = operandOf(instr) * 65536 + inputRelocs[st.i + 2] + isecBase,
                         !.needSetPosition = TRUE,
                         !.i = st.i + 2]
         ELSE [st EXCEPT !.i = st.i + 1]
    ELSE IF opcodeOf(instr) = kPEFRelocSmSetSectC
    THEN [st EXCEPT !.sectionC = operandOf(instr),
                    !.instructions = @ \o emitSetSectC(operandOf(instr)),
                    !.i = st.i + 1]
    ELSE IF opcodeOf(instr) = kPEFRelocSmSetSectD
    THEN [st EXCEPT !.sectionD = operandOf(instr),
                    !.instructions = @ \o emitSetSectD(operandOf(instr)),
                    !.i = st.i + 1]
    ELSE [st EXCEPT !.instructions = Append(@, instr), !.i = st.i + 1]

\* The decoding loop over one input section's words.
RECURSIVE decodeFrom(_, _, _)
decodeFrom(st, inputRelocs, isecBase) ==
    IF st.i >= Len(inputRelocs) THEN st
    ELSE decodeFrom(decodeOne(st, inputRelocs, isecBase, inputRelocs[st.i + 1],
                              st.i + 1 < Len(inputRelocs)),
                    inputRelocs, isecBase)

\* The loop of processSection over the input sections of osec, from the
\* k-th on: sections without relocations are skipped.
RECURSIVE processInputSections(_, _, _)
processInputSections(st, osec, k) ==
    IF k > Len(osec.inputSections) THEN st
    ELSE IF getRelocations(osec.inputSections[k]) = <<>>
    THEN processInputSections(st, osec, k + 1)
    ELSE processInputSections(
           decodeFrom([st EXCEPT !.i = 0,
                                 !.pos = osec.inputSections[k].virtualAddress
                                           - osec.virtualAddress],
                      getRelocations(osec.inputSections[k]),
                      osec.inputSections[k].virtualAddress - osec.virtualAddress),
           osec, k + 1)

\* A variant whose header counts bytes instead of instruction words.
headerFor_CountBytes(st, sectionIndex, instrStart) ==
    IF Len(st.instructions) > instrStart
    THEN [st EXCEPT !.headers =
             Append(@, [SectionIndex |-> sectionIndex,
                        RelocCount |-> (Len(st.instructions) - instrStart) * 2,
                        FirstRelocOffset |-> instrStart * 2])]
    ELSE st

\* The header processSection appends when the section produced instructions.
headerFor(st, sectionIndex, instrStart) ==
    IF Len(st.instructions) > instrStart
    THEN [st EXCEPT !.headers =
             Append(@, [SectionIndex |-> sectionIndex,
                        RelocCount |-> Len(st.instructions) - instrStart,
                        FirstRelocOffset |-> instrStart * 2])]
    ELSE st

\* PEFRelocWriter::processSection.
processSection(st, osec, sectionIndex) ==
    headerFor(processInputSections([st EXCEPT !.relocAddress = 0,
                                              !.needSetPosition = TRUE],
                                   osec, 1),
              sectionIndex, Len(st.instructions))

\* The first output section of a kind (0-based), -1 if there is none: the
\* constructor's presets of sectionC and sectionD.
firstOfKind(osecs, kind) ==
    IF \E o \in 1..Len(osecs) : osecs[o].kind = kind
    THEN (CHOOSE o \in 1..Len(osecs) :
            /\ osecs[o].kind = kind
            /\ \A q \in 1..(o - 1) : osecs[q].kind # kind) - 1
    ELSE -1

\* PEFRelocWriter::PEFRelocWriter
MakeRelocWriter(osecs) ==
    [instructions |-> <<>>, headers |-> <<>>, relocAddress |-> 0,
     needSetPosition |-> TRUE, pos |-> 0, i |-> 0,
     sectionC |-> firstOfKind(osecs, kPEFCodeSection),
     sectionD |-> firstOfKind(osecs, kPEFUnpackedDataSection)]

\* PEFRelocWriter::generate: every output section in turn (optimize() does
\* nothing); the result is the headers and the instruction words.
RECURSIVE generateFrom(_, _, _)
generateFrom(st, osecs, o) ==
    IF o > Len(osecs) THEN st
    ELSE generateFrom(processSection(st, osecs[o], o - 1), osecs, o + 1)

generate(osecs) == generateFrom(MakeRelocWriter(osecs), osecs, 1)

(***************************************************************************)
(* Writer: the loader section of the output.                               *)
(***************************************************************************)
InterfaceLib == "InterfaceLib"

\* Writer::collectImports: every symbol still Undefined is listed under the
\* one library "InterfaceLib".
collectImports(t) ==
    LET undefs == getUndefinedSymbols(t)
    IN  IF undefs = <<>>
        THEN [importedLibraries |-> <<>>, totalImportedSymbolCount |-> 0]
        ELSE [importedLibraries |->
                  <<[name |-> InterfaceLib, symbols |-> undefs, firstImportedSymbol |-> 0]>>,
              totalImportedSymbolCount |-> Len(undefs)]

\* The bytes of the library name every import is filed under.
InterfaceLibName == <<73, 110, 116, 101, 114, 102, 97, 99, 101, 76, 105, 98>>

\* The symbols of all imported libraries, in library order: the order of
\* the imported symbol table.
importedSymbolsOf(imports) ==
    Concat([k \in 1..Len(imports.importedLibraries) |->
              imports.importedLibraries[k].symbols])

\* The string table up to the exported names: each library name, then each
\* imported symbol name, NUL-terminated.
importStrings(t, libs, syms) ==
    Concat([k \in 1..Len(libs) |-> InterfaceLibName \o <<0>>])
      \o Concat([i \in 1..Len(syms) |-> t.arena[syms[i]].name \o <<0>>])

\* The word written for the i-th imported symbol: nameOffset is the size of
\* the string table when the name is appended,
\*   (kPEFTVectorSymbol << 24) | (nameOffset & 0x00FFFFFF).
importedClassAndName(t, imports, i) ==
    kPEFTVectorSymbol * Pow2(24)
      + (Len(importStrings(t, imports.importedLibraries,
                           SubSeq(importedSymbolsOf(imports), 1, i - 1))) % Pow2(24))

\* The exported symbol entries: the name offsets follow the import strings.
exportedSymbols(t, definedSymbols, base) ==
    [i \in 1..Len(definedSymbols) |->
       [ClassAndName |->
            composeExportedSymbol(t.arena[definedSymbols[i]].symbolClass,
                                  base + NameOffsetOf([j \in 1..Len(definedSymbols) |->
                                                         t.arena[definedSymbols[j]]], i)),
        SymbolValue |-> t.arena[definedSymbols[i]].value,
        SectionIndex |-> t.arena[definedSymbols[i]].sectionIndex]]

\* The word 0xFFFFFFFF written into the one hash slot, held as the signed
\* integer with the same 32 bits.
EmptySlotMarker == -1

\* The tables of the loader section once the imports, the relocation
\* writer's result, the defined symbols and the entry point are known.
loaderTables(t, imports, relocs, definedSymbols, entryPoint, strings) ==
    [MainSection |-> IF entryPoint # NULL /\ isDefined(t.arena[entryPoint])
                     THEN t.arena[entryPoint].sectionIndex ELSE -1,
     MainOffset |-> IF entryPoint # NULL /\ isDefined(t.arena[entryPoint])
                    THEN t.arena[entryPoint].value ELSE 0,
     ImportedLibraryCount |-> Len(imports.importedLibraries),
     TotalImportedSymbolCount |-> imports.totalImportedSymbolCount,
     RelocSectionCount |-> Len(relocs.headers),
     ExportHashTablePower |-> 0,
     ExportedSymbolCount |-> Len(definedSymbols),
     importedLibraries |-> imports.importedLibraries,
     importedSymbols |-> [i \in 1..Len(importedSymbolsOf(imports)) |->
                            [class |-> kPEFTVectorSymbol,
                             name |-> t.arena[importedSymbolsOf(imports)[i]].name,
                             ClassAndName |-> importedClassAndName(t, imports, i)]],
     relocHeaders |-> relocs.headers,
     relocInstrs |-> relocs.instructions,
     strings |-> strings \o Concat([i \in 1..Len(definedSymbols) |->
                                      t.arena[definedSymbols[i]].name \o <<0>>]),
     slots |-> <<EmptySlotMarker>>,
     keys |-> [i \in 1..Len(definedSymbols) |-> i - 1],
     syms |-> exportedSymbols(t, definedSymbols, Len(strings)),
     exports |-> [i \in 1..Len(definedSymbols) |->
                    [class |-> t.arena[definedSymbols[i]].symbolClass,
                     name |-> t.arena[definedSymbols[i]].name,
                     SymbolValue |-> t.arena[definedSymbols[i]].value,
                     SectionIndex |-> t.arena[definedSymbols[i]].sectionIndex]]]

\* Writer::createLoaderSection: collectImports, the relocation writer, then
\* the loader info header and the tables behind it.
createLoaderSection(t, entry, osecs) ==
    loaderTables(t, collectImports(t), generate(osecs), getDefinedSymbols(t),
                 IF entry # <<>> THEN find(t, entry) ELSE NULL,
                 importStrings(t, collectImports(t).importedLibraries,
                               importedSymbolsOf(collectImports(t))))

\* PEFObjectFile::getSectionData fails only for an index past the section
\* count; Writer::writeSections reports each failure and goes on.
getDataFails(fileList, isec) == isec.index >= fileList[isec.file].SectionCount

writeSectionsErrors(fileList, osecs) ==
    LET all == Concat([o \in 1..Len(osecs) |-> osecs[o].inputSections])
        failed == SelectSeq(all, LAMBDA isec : getDataFails(fileList, isec))
    IN  [i \in 1..Len(failed) |->
           Err("failed to get section data", <<>>, fileList[failed[i].file].mb)]

\* sizeof(PEF::ContainerHeader) and sizeof(PEF::SectionHeader).
sizeofContainerHeader == 40
sizeofSectionHeader == 28

\* Writer::assignFileOffsets from output section o on, offset being the
\* running file offset: sections without members keep file offset 0.
RECURSIVE assignFrom(_, _, _)
assignFrom(osecs, o, offset) ==
    IF o > Len(osecs) THEN osecs
    ELSE IF osecs[o].inputSections = <<>> THEN assignFrom(osecs, o + 1, offset)
    ELSE assignFrom([osecs EXCEPT ![o].fileOffset = alignTo(offset, 16)], o + 1,
                    alignTo(offset, 16) + osecs[o].size)

assignFileOffsets(osecs) ==
    assignFrom(osecs, 1, sizeofContainerHeader + (Len(osecs) + 1) * sizeofSectionHeader)

\* InputSection::getData: the ContainerLength bytes of the section.
getData(isec) == [file |-> isec.file, index |-> isec.index,
                  length |-> isec.header.ContainerLength]

\* Writer::writeSections for one output section from member k on, buf being
\* the file offset the next body is copied to.  Result: for each member in
\* order, where its bytes went ([file, index, length, at]).
RECURSIVE writeBodies(_, _, _, _)
writeBodies(fileList, osec, k, buf) ==
    IF k > Len(osec.inputSections) THEN <<>>
    ELSE IF getDataFails(fileList, osec.inputSections[k])
    THEN writeBodies(fileList, osec, k + 1, buf)
    ELSE <<getData(osec.inputSections[k]) @@ [at |-> buf]>>
           \o writeBodies(fileList, osec, k + 1,
                          buf + getData(osec.inputSections[k]).length)

\* The file the writer commits: header counts, section headers, section
\* bodies, loader.
NoOutput == [committed |-> FALSE]

writtenFile(fileList, loader, present) ==
    [committed |-> TRUE,
     SectionCount |-> Len(present) + 1,
     InstSectionCount |-> Len(present),
     sections |-> [i \in 1..Len(present) |->
                     [DefaultAddress |-> present[i].virtualAddress,
                      TotalLength |-> present[i].size,
                      ContainerOffset |-> present[i].fileOffset,
                      SectionKind |-> present[i].kind]],
     bodies |-> [i \in 1..Len(present) |->
                   writeBodies(fileList, present[i], 1, present[i].fileOffset)],
     loader |-> loader]

outputFile(fileList, t, entry, osecs) ==
    writtenFile(fileList, createLoaderSection(t, entry, osecs),
                SelectSeq(assignFileOffsets(osecs), LAMBDA osec : osec.inputSections # <<>>))

\* Mutant of shouldWrite: the writer runs whatever was reported.
shouldWrite_Always(errCount) == TRUE

\* link(): "if (errorCount() == 0) writeResult(outputSections)".
shouldWrite(errCount) == errCount = 0

VARIABLES
    config,      \* [allowUndefined, verbose, entry, baseCode, baseData, inputFiles,
                 \*  libraries, weakLibraries]
    symtab,      \* the global SymbolTable
    errors,      \* the errors reported so far, in order (errorCount() = Len)
    pc,          \* where the driver is
    lastCall,    \* SpecSymtab: the call just made, its result, and the kind the entry had
    idx,         \* Spec: the loop index of the driver's current loop
    files,       \* link()'s files: the InputFile objects created, in order
    importLibs,  \* link()'s importLibs: pointers (positions in files) of the libraries
    undefinedSymbols,    \* link()'s undefinedSymbols: the list last collected
    outputSections,      \* link()'s outputSections after layout
    output,      \* the output file: NoOutput until committed
    result       \* what link() returned: "running", "true" or "false"

linkVars == <<idx, files, importLibs, undefinedSymbols, outputSections, output, result>>

vars == <<config, symtab, errors, pc, lastCall, idx, files, importLibs, undefinedSymbols,
          outputSections, output, result>>

errorCount == Len(errors)

(***************************************************************************)
(* SpecSymtab: the symbol table under arbitrary calls.                     *)
(***************************************************************************)
SymNames == {NameMain, NameFoo}

\* The attributes a caller supplies: two distinguishable definitions, two
\* distinguishable imports, two referencing files.
DefArgs == {[file |-> "a.o", value |-> 0, sectionIndex |-> 0, symbolClass |-> kPEFCodeSymbol],
            [file |-> "b.o", value |-> 4, sectionIndex |-> 1, symbolClass |-> kPEFDataSymbol]}
UndefArgs == {[file |-> "a.o", symbolClass |-> 0], [file |-> "b.o", symbolClass |-> 0]}
ImpArgs == {[lib |-> "LibA", symbolClass |-> kPEFTVectorSymbol, weak |-> FALSE],
            [lib |-> "LibB", symbolClass |-> kPEFCodeSymbol, weak |-> TRUE]}

NoCall == [op |-> "none"]

ApiConfig(allowUndefined) ==
    [allowUndefined |-> allowUndefined, verbose |-> FALSE, entry |-> NameMain,
     baseCode |-> 0, baseData |-> 0, inputFiles |-> <<>>, libraries |-> <<>>,
     weakLibraries |-> <<>>]

InitSymtab ==
    /\ config \in {ApiConfig(au) : au \in BOOLEAN}
    /\ symtab = EmptyTable
    /\ errors = <<>>
    /\ pc = "api"
    /\ lastCall = NoCall
    /\ idx = 1
    /\ files = <<>>
    /\ importLibs = <<>>
    /\ undefinedSymbols = <<>>
    /\ outputSections = <<>>
    /\ output = [committed |-> FALSE]
    /\ result = "running"

\* The kind of the entry a name has in table t ("absent" if none).
KindOf(t, name) ==
    IF name \in DOMAIN t.symMap THEN t.arena[t.symMap[name]].kind ELSE "absent"

\* The entry (symbol object) a name has in table t.
EntryOf(t, name) == t.arena[t.symMap[name]]

Record(op, name, args, r) ==
    [op |-> op, name |-> name, args |-> args, ret |-> r.ret,
     was |-> KindOf(symtab, name)]

CallAddDefined ==
    \E name \in SymNames, a \in DefArgs :
        LET r == addDefined(symtab, config.allowUndefined, name, a.file, a.value,
                            a.sectionIndex, a.symbolClass)
        IN  /\ pc = "api"
            /\ Len(errors) + Len(r.errs) <= MaxErrors
            /\ symtab' = r.t
            /\ errors' = errors \o r.errs
            /\ lastCall' = Record("addDefined", name, a, r)
            /\ UNCHANGED <<config, pc, linkVars>>

CallAddUndefined ==
    \E name \in SymNames, a \in UndefArgs :
        LET r == addUndefined(symtab, name, a.file, a.symbolClass)
        IN  /\ pc = "api"
            /\ symtab' = r.t
            /\ errors' = errors \o r.errs
            /\ lastCall' = Record("addUndefined", name, a, r)
            /\ \/ pc' = pc
               \/ ~r.castOk /\ pc' = "aborted"
            /\ UNCHANGED <<config, linkVars>>

CallAddImported ==
    \E name \in SymNames, a \in ImpArgs :
        LET r == addImported(symtab, name, a.lib, a.symbolClass, a.weak)
        IN  /\ pc = "api"
            /\ symtab' = r.t
            /\ errors' = errors \o r.errs
            /\ lastCall' = Record("addImported", name, a, r)
            /\ UNCHANGED <<config, pc, linkVars>>

NextSymtab == CallAddDefined \/ CallAddUndefined \/ CallAddImported

SpecSymtab == InitSymtab /\ [][NextSymtab]_vars

(***************************************************************************)
(* Spec: one run of link().                                                *)
(***************************************************************************)
SeqsUpTo(S, n) == UNION {[1..k -> S] : k \in 0..n}

Init ==
    /\ config \in [allowUndefined : BOOLEAN, verbose : BOOLEAN,
                   entry : {NameMain, NameFoo}, baseCode : {0}, baseData : {0},
                   inputFiles : SeqsUpTo(InputPaths, MaxInputs),
                   libraries : SeqsUpTo(LibraryNames, MaxLibs),
                   weakLibraries : SeqsUpTo(WeakLibraryNames, MaxWeakLibs)]
    /\ symtab = EmptyTable
    /\ errors = <<>>
    /\ pc = "start"
    /\ lastCall = NoCall
    /\ idx = 1
    /\ files = <<>>
    /\ importLibs = <<>>
    /\ undefinedSymbols = <<>>
    /\ outputSections = <<>>
    /\ output = NoOutput
    /\ result = "running"

\* link(): "if (config->inputFiles.empty()) { error; return false; }"
CheckInputFiles ==
    /\ pc = "start"
    /\ IF config.inputFiles = <<>>
       THEN /\ errors' = Append(errors, Err("no input files", <<>>, ""))
            /\ result' = "false"
            /\ pc' = "done"
       ELSE /\ pc' = "read"
            /\ UNCHANGED <<errors, result>>
    /\ UNCHANGED <<config, symtab, lastCall, idx, files, importLibs, undefinedSymbols,
                   outputSections, output>>

\* The body of the loop for one path: readFile fails, createObjectFile
\* rejects the magic, or the file is created and parsed (r is parse's result).
ReadFound(disk, r) ==
    IF ~disk.exists
    THEN /\ errors' = Append(errors, Err("cannot open", <<>>, disk.path))
         /\ UNCHANGED <<symtab, files>>
    ELSE IF ~disk.magic
    THEN /\ errors' = Append(errors, Err("unknown file type", <<>>, disk.path))
         /\ UNCHANGED <<symtab, files>>
    ELSE /\ symtab' = r.t
         /\ errors' = errors \o r.errs
         /\ files' = Append(files, r.file)

\* One iteration of "Read input files": readFile, createObjectFile, parse.
ReadInput ==
    /\ pc = "read"
    /\ idx <= Len(config.inputFiles)
    /\ \E disk \in {ObjectCatalogue[config.inputFiles[idx]]} :
          ReadFound(disk, parse(symtab, config.allowUndefined, disk, Len(files) + 1))
    /\ idx' = idx + 1
    /\ UNCHANGED <<config, pc, lastCall, importLibs, undefinedSymbols, outputSections,
                   output, result>>

\* link(): "if (files.empty()) { error; return false; }"
CheckFiles ==
    /\ pc = "read"
    /\ idx > Len(config.inputFiles)
    /\ IF files = <<>>
       THEN /\ errors' = Append(errors, Err("no valid input files", <<>>, ""))
            /\ result' = "false"
            /\ pc' = "done"
       ELSE /\ pc' = "libs"
            /\ UNCHANGED <<errors, result>>
    /\ idx' = 1
    /\ UNCHANGED <<config, symtab, lastCall, files, importLibs, undefinedSymbols,
                   outputSections, output>>

\* The body both library loops share once the library has been found:
\* readFile and createSharedLibraryFile(mb, isWeak).
LoadFound(disk, isWeak) ==
    IF ~disk.magic
    THEN /\ errors' = Append(errors, Err("not a PEF file", <<>>, disk.path))
         /\ UNCHANGED <<files, importLibs>>
    ELSE /\ errors' = IF disk.valid THEN errors
                      ELSE Append(errors, Err("malformed file", <<>>, disk.path))
         /\ files' = Append(files, MakeSharedLibraryFile(disk, disk.valid, isWeak))
         /\ importLibs' = Append(importLibs, Len(files) + 1)

\* One iteration of "Load regular shared libraries (-l)".
LoadLibrary ==
    /\ pc = "libs"
    /\ idx <= Len(config.libraries)
    /\ LET libName == config.libraries[idx]
           libPath == searchLibrary(libName)
       IN  IF libPath = ""
           THEN /\ errors' = Append(errors, Err("library not found", <<>>, libName))
                /\ UNCHANGED <<files, importLibs>>
           ELSE LoadFound(LibraryCatalogue[libPath], FALSE)
    /\ idx' = idx + 1
    /\ UNCHANGED <<config, symtab, pc, lastCall, undefinedSymbols, outputSections,
                   output, result>>

\* One iteration of "Load weak shared libraries (--weak-l)".
LoadWeakLibrary ==
    /\ pc = "libs"
    /\ idx > Len(config.libraries)
    /\ idx <= Len(config.libraries) + Len(config.weakLibraries)
    /\ LET libName == config.weakLibraries[idx - Len(config.libraries)]
           libPath == searchLibrary(libName)
       IN  IF libPath = ""
           THEN UNCHANGED <<errors, files, importLibs>>
           ELSE LoadFound(LibraryCatalogue[libPath], TRUE)
    /\ idx' = idx + 1
    /\ UNCHANGED <<config, symtab, pc, lastCall, undefinedSymbols, outputSections,
                   output, result>>

\* "Resolve undefined symbols against import libraries".  findExport on a
\* library whose container was rejected dereferences a null pefLib.
ResolveImports ==
    /\ pc = "libs"
    /\ idx > Len(config.libraries) + Len(config.weakLibraries)
    /\ undefinedSymbols' = getUndefinedSymbols(symtab)
    /\ IF /\ getUndefinedSymbols(symtab) # <<>>
          /\ \E k \in 1..Len(importLibs) : ~files[importLibs[k]].parsed
       THEN /\ pc' = "aborted"
            /\ UNCHANGED symtab
       ELSE /\ pc' = "check"
            /\ symtab' = resolveImports(symtab, files, importLibs)
    /\ UNCHANGED <<config, errors, lastCall, idx, files, importLibs, outputSections,
                   output, result>>

\* The error for one symbol still undefined.
UndefinedError(name) == Err("undefined symbol", name, "")

\* Mutant of reportsUndefined: undefined symbols are never reported.
reportsUndefined_Never(undefs, allowUndefined) == FALSE

\* link(): "if (!undefinedSymbols.empty() && !config->allowUndefined)".
reportsUndefined(undefs, allowUndefined) == undefs # <<>> /\ ~allowUndefined

\* "Re-check for undefined symbols after import resolution".
CheckUndefined ==
    /\ pc = "check"
    /\ LET undefs == getUndefinedSymbols(symtab)
       IN  /\ undefinedSymbols' = undefs
           /\ errors' = IF reportsUndefined(undefs, config.allowUndefined)
                        THEN errors \o [i \in 1..Len(undefs) |->
                                          UndefinedError(symtab.arena[undefs[i]].name)]
                        ELSE errors
    /\ pc' = "stats"
    /\ UNCHANGED <<config, symtab, lastCall, idx, files, importLibs, outputSections,
                   output, result>>

\* "Report symbol table statistics": the entry point is looked at only when
\* the link is verbose.
ReportStatistics ==
    /\ pc = "stats"
    /\ LET entrySym == find(symtab, config.entry)
       IN  errors' =
             IF config.verbose /\ config.entry # <<>>
             THEN IF entrySym = NULL
                  THEN Append(errors, Err("entry point symbol not found", config.entry, ""))
                  ELSE IF ~isDefined(symtab.arena[entrySym])
                  THEN Append(errors, Err("entry point symbol is undefined", config.entry, ""))
                  ELSE errors
             ELSE errors
    /\ pc' = "layout"
    /\ UNCHANGED <<config, symtab, lastCall, idx, files, importLibs, undefinedSymbols,
                   outputSections, output, result>>

\* "Section merging and layout" and "Update symbol virtual addresses".
Layout ==
    /\ pc = "layout"
    /\ LET osecs == assignAddresses(collectSections(files), 1, config.baseCode)
       IN  /\ outputSections' = osecs
           /\ symtab' = assignSymbolAddresses(symtab, osecs)
    /\ pc' = "relocs"
    /\ UNCHANGED <<config, errors, lastCall, idx, files, importLibs, undefinedSymbols,
                   output, result>>

\* "Process relocations": scanRelocations and processRelocations walk each
\* section's relocation iterator and change nothing.
ProcessRelocations ==
    /\ pc = "relocs"
    /\ pc' = "write"
    /\ UNCHANGED <<config, symtab, errors, lastCall, idx, files, importLibs,
                   undefinedSymbols, outputSections, output, result>>

\* "Write output" and the return of link().  Writer::run: openFile may fail
\* (then nothing is written); writeSections reports the bodies it cannot
\* get; commit may fail.
WriteResult ==
    /\ pc = "write"
    /\ \E openOk \in BOOLEAN, commitOk \in BOOLEAN :
         LET bodyErrs == writeSectionsErrors(files, outputSections)
             after ==
               IF ~shouldWrite(errorCount) THEN [errs |-> errors, out |-> NoOutput]
               ELSE IF ~openOk
               THEN [errs |-> Append(errors, Err("failed to open", <<>>, "a.out")),
                     out |-> NoOutput]
               ELSE IF ~commitOk
               THEN [errs |-> Append(errors \o bodyErrs, Err("failed to write", <<>>, "a.out")),
                     out |-> NoOutput]
               ELSE [errs |-> errors \o bodyErrs,
                     out |-> outputFile(files, symtab, config.entry, outputSections)]
         IN  /\ errors' = after.errs
             /\ output' = after.out
             /\ result' = IF Len(after.errs) = 0 THEN "true" ELSE "false"
    /\ pc' = "done"
    /\ UNCHANGED <<config, symtab, lastCall, idx, files, importLibs, undefinedSymbols,
                   outputSections>>

Next ==
    \/ CheckInputFiles
    \/ ReadInput
    \/ CheckFiles
    \/ LoadLibrary
    \/ LoadWeakLibrary
    \/ ResolveImports
    \/ CheckUndefined
    \/ ReportStatistics
    \/ Layout
    \/ ProcessRelocations
    \/ WriteResult

Spec == Init /\ [][Next]_vars

(***************************************************************************)
(* SpecLayout: link() from "Section merging and layout" on, after two      *)
(* object files have been read: a.o with a code and a data section and the *)
(* export main, b.o with a code and a data section and the export foo.     *)
(***************************************************************************)
\* The section shapes the object files are built from.
LayoutShapes ==
    [TotalLength : {4, 12}, shrink : {0, 4}, Alignment : {2, 4, MaxAlignment}]

ShapedSection(kind, shape) ==
    SectionHeader(kind, shape.TotalLength, shape.TotalLength - shape.shrink, shape.Alignment)

LayoutLoaderA == ObjLoaderOf(<<Export(NameMain, kPEFCodeSymbol, 0, 0)>>, 0, <<>>, <<>>)
LayoutLoaderB == ObjLoaderOf(<<Export(NameFoo, kPEFDataSymbol, 4, 1)>>, 0, <<>>, <<>>)

LayoutObjectA(code, data) ==
    DiskFile("a.o", TRUE, TRUE, TRUE,
             <<ShapedSection(kPEFCodeSection, code),
               ShapedSection(kPEFUnpackedDataSection, data),
               SectionHeader(kPEFLoaderSection, 0, 80, 4)>>,
             LayoutLoaderA)

LayoutObjectB(code) ==
    DiskFile("b.o", TRUE, TRUE, TRUE,
             <<ShapedSection(kPEFCodeSection, code),
               SectionHeader(kPEFUnpackedDataSection, 8, 8, 3),
               SectionHeader(kPEFLoaderSection, 0, 80, 4)>>,
             LayoutLoaderB)

\* The state of link() when it reaches the layout, r1 and r2 being the
\* results of parsing the two files in turn.
ReadBoth(r1, r2) ==
    /\ symtab = r2.t
    /\ files = <<r1.file, r2.file>>
    /\ errors = r1.errs \o r2.errs

InitLayout ==
    /\ config \in [allowUndefined : {FALSE}, verbose : {FALSE}, entry : {NameMain},
                   baseCode : {0, 4, MaxBase}, baseData : {0, 64},
                   inputFiles : {<<"a.o", "b.o">>}, libraries : {<<>>},
                   weakLibraries : {<<>>}]
    /\ \E code1 \in LayoutShapes, data1 \in LayoutShapes, code2 \in LayoutShapes :
         \E r1 \in {parse(EmptyTable, FALSE, LayoutObjectA(code1, data1), 1)} :
           ReadBoth(r1, parse(r1.t, FALSE, LayoutObjectB(code2), 2))
    /\ pc = "layout"
    /\ lastCall = NoCall
    /\ idx = 1
    /\ importLibs = <<>>
    /\ undefinedSymbols = <<>>
    /\ outputSections = <<>>
    /\ output = NoOutput
    /\ result = "running"

NextLayout ==
    \/ Layout
    \/ ProcessRelocations
    \/ WriteResult

SpecLayout == InitLayout /\ [][NextLayout]_vars

(***************************************************************************)
(* SpecReloc: link() from the layout on, after two object files with       *)
(* relocation streams have been read with allow_undefined: a.o with a data *)
(* section, b.o with a data section and, or not, a code section.  Both     *)
(* import foo and bar.                                                      *)
(***************************************************************************)
kPEFRelocTVector8 == 35         \* 0x23

\* composeSetPosition1st / composeLgByImport1st
composeSetPosition1st(Offset) == RelocInstr(kPEFRelocSetPosition, (Offset \div 65536) % 1024)
composeLgByImport1st(Index) == RelocInstr(kPEFRelocLgByImport, (Index \div 65536) % 1024)

\* The relocation streams an input section can carry.
RelocStreams ==
    {<<>>,
     <<RelocInstr(kPEFRelocBySectC, 0)>>,
     <<RelocInstr(kPEFRelocSmByImport, 0), RelocInstr(kPEFRelocSmByImport, 1)>>,
     <<RelocInstr(kPEFRelocTVector8, 0), RelocInstr(kPEFRelocBySectD, 0)>>,
     <<composeSetPosition1st(MaxPosition), MaxPosition, RelocInstr(kPEFRelocBySectC, 1)>>,
     <<composeLgByImport1st(1), 1>>,
     <<composeLgByImport1st(0), RelocInstr(kPEFRelocSmByImport, 0)>>}

RelocImports == <<NameFoo, NameBar>>

\* The relocation headers of an object: one per section with a stream.
RelocHeadersOf(streams) ==
    SelectSeq([i \in 1..Len(streams) |-> RelocHeader(i - 1, streams[i])],
              LAMBDA h : h.instrs # <<>>)

RelocObjectA(dataStream) ==
    DiskFile("a.o", TRUE, TRUE, TRUE,
             <<SectionHeader(kPEFUnpackedDataSection, 16, 16, 2),
               SectionHeader(kPEFLoaderSection, 0, 80, 4)>>,
             ObjLoaderOf(<<Export(NameMain, kPEFDataSymbol, 0, 0)>>, 0, RelocImports,
                         RelocHeadersOf(<<dataStream>>)))

RelocObjectB(withCode, codeStream, dataStream) ==
    IF withCode
    THEN DiskFile("b.o", TRUE, TRUE, TRUE,
                  <<SectionHeader(kPEFCodeSection, 16, 16, 2),
                    SectionHeader(kPEFUnpackedDataSection, 16, 16, 2),
                    SectionHeader(kPEFLoaderSection, 0, 80, 4)>>,
                  ObjLoaderOf(<<Export(NameOpt, kPEFDataSymbol, 4, 1)>>, 0, RelocImports,
                              RelocHeadersOf(<<codeStream, dataStream>>)))
    ELSE DiskFile("b.o", TRUE, TRUE, TRUE,
                  <<SectionHeader(kPEFUnpackedDataSection, 16, 16, 2),
                    SectionHeader(kPEFLoaderSection, 0, 80, 4)>>,
                  ObjLoaderOf(<<Export(NameOpt, kPEFDataSymbol, 4, 0)>>, 0, RelocImports,
                              RelocHeadersOf(<<dataStream>>)))

InitReloc ==
    /\ config = [ApiConfig(TRUE) EXCEPT !.inputFiles = <<"a.o", "b.o">>]
    /\ \E sA \in RelocStreams, sC \in RelocStreams, sD \in RelocStreams, withCode \in BOOLEAN :
         /\ (~withCode => sC = <<>>)
         /\ \E r1 \in {parse(EmptyTable, TRUE, RelocObjectA(sA), 1)} :
              ReadBoth(r1, parse(r1.t, TRUE, RelocObjectB(withCode, sC, sD), 2))
    /\ pc = "layout"
    /\ lastCall = NoCall
    /\ idx = 1
    /\ importLibs = <<>>
    /\ undefinedSymbols = <<>>
    /\ outputSections = <<>>
    /\ output = NoOutput
    /\ result = "running"

NextReloc ==
    \/ Layout
    \/ ProcessRelocations
    \/ WriteResult

SpecReloc == InitReloc /\ [][NextReloc]_vars

(***************************************************************************)
(* SpecFind: findExport on libraries with well-formed export tables, built *)
(* from every list of up to MaxExports distinct exports and every table    *)
(* power up to MaxPower.  The names "ab" and "bd" have the same hash word. *)
(* The library is kept in files[1].                                        *)
(***************************************************************************)
NameAb == <<97, 98>>                    \* "ab"
NameBd == <<98, 100>>                   \* "bd"

FindExports ==
    {Export(NameAb, kPEFCodeSymbol, 0, 0), Export(NameBd, kPEFDataSymbol, 4, 1),
     Export(NameFoo, kPEFTVectorSymbol, 8, 1), Export(NameBar, kPEFGlueSymbol, 12, 0)}

\* The names looked up: the exported ones and one that no library exports.
FindNames == {NameAb, NameBd, NameFoo, NameBar, NameOpt}

FindLibraries ==
    {DiskFile("Lib", TRUE, TRUE, TRUE, <<SectionHeader(kPEFLoaderSection, 0, 128, 4)>>,
              ObjLoaderOf(exports, power, <<>>, <<>>)) :
       exports \in {e \in SeqsUpTo(FindExports, MaxExports) :
                      \A i, j \in 1..Len(e) : e[i] = e[j] => i = j},
       power \in 0..MaxPower}

InitFind ==
    /\ config = ApiConfig(FALSE)
    /\ symtab = EmptyTable
    /\ errors = <<>>
    /\ pc = "library"
    /\ lastCall = NoCall
    /\ idx = 1
    /\ files \in {<<lib>> : lib \in FindLibraries}
    /\ importLibs = <<>>
    /\ undefinedSymbols = <<>>
    /\ outputSections = <<>>
    /\ output = NoOutput
    /\ result = "running"

\* One call of SharedLibraryFile::findExport.
FindExport ==
    /\ pc = "library"
    /\ \E name \in FindNames :
         lastCall' = [op |-> "findExport", name |-> name, ret |-> findExport(files[1], name)]
    /\ pc' = "looked up"
    /\ UNCHANGED <<config, symtab, errors, linkVars>>

NextFind == FindExport

SpecFind == InitFind /\ [][NextFind]_vars

(***************************************************************************)
(* SpecHash: computePEFHash run byte by byte on names long enough for the  *)
(* 32-bit hash value to wrap and to turn negative.                         *)
(***************************************************************************)
\* Runs of one byte of every length up to MaxNameLen, followed by a tail.
HashNames ==
    {[k \in 1..n |-> b] \o tail : b \in {97, 255}, n \in 0..MaxNameLen,
                          tail \in {<<>>, <<95>>, <<200, 1>>}}

InitHash ==
    /\ config = ApiConfig(FALSE)
    /\ symtab = EmptyTable
    /\ errors = <<>>
    /\ pc = "hash"
    /\ lastCall \in {[op |-> "hashing", name |-> n, i |-> 0, hashValue |-> Word(0, 0)] :
                        n \in HashNames}
    /\ idx = 1
    /\ files = <<>>
    /\ importLibs = <<>>
    /\ undefinedSymbols = <<>>
    /\ outputSections = <<>>
    /\ output = NoOutput
    /\ result = "running"

\* One turn of "for (char c : name)".
HashByte ==
    /\ lastCall.op = "hashing"
    /\ lastCall.i < Len(lastCall.name)
    /\ lastCall' = [lastCall EXCEPT !.i = @ + 1,
                                     !.hashValue = hashStep(@, lastCall.name[lastCall.i + 1])]
    /\ UNCHANGED <<config, symtab, errors, pc, linkVars>>

\* The loop is over: the word is combined with the length and returned.
HashReturn ==
    /\ lastCall.op = "hashing"
    /\ lastCall.i = Len(lastCall.name)
    /\ lastCall' = [op |-> "computePEFHash", name |-> lastCall.name,
                    hashValue |-> lastCall.hashValue,
                    ret |-> finalHash(Len(lastCall.name), lastCall.hashValue)]
    /\ UNCHANGED <<config, symtab, errors, pc, linkVars>>

NextHash ==
    \/ HashByte
    \/ HashReturn

SpecHash == InitHash /\ [][NextHash]_vars

(***************************************************************************)
(* SpecReader: PEFObjectFile on an arbitrary buffer with one loader        *)
(* section.  A buffer is described by what the reader looks at: its size,  *)
(* the loader section's ContainerOffset and ContainerLength, the fields of *)
(* the LoaderInfoHeader that locate the export tables, the name offset     *)
(* held by the export records and the place of the one NUL byte of the     *)
(* loader section (offsets from the start of the loader section).  The     *)
(* buffer is kept in files[1].                                              *)
(***************************************************************************)
sizeofLoaderInfoHeader == 56
KExportedSymbolSize == 10

ReaderBuffers ==
    [size : {160, MaxBufferSize},
     ContainerOffset : {68, 80},
     ContainerLength : {0, 40, 56, 96},
     ExportHashOffset : {56, 60, 200},
     ExportHashTablePower : {0, 1},
     ExportedSymbolCount : {0, 1, 2},
     LoaderStringsOffset : {56, 300},
     NameOffset : {0, 500},
     nul : {59, 1000}]

\* PEFObjectFile::create: parseSectionHeaders and parseLoaderSection accept
\* the buffer (the container header and the section header are well formed).
createAccepts(buf) ==
    /\ buf.size >= sizeofContainerHeader + sizeofSectionHeader
    /\ (buf.ContainerLength > 0 => buf.ContainerOffset + buf.ContainerLength <= buf.size)
    /\ buf.ContainerLength # 0
    /\ buf.ContainerLength >= sizeofLoaderInfoHeader

\* getExportedSymbolTableOffset
getExportedSymbolTableOffset(LoaderInfo) ==
    LoaderInfo.ExportHashOffset + Pow2(LoaderInfo.ExportHashTablePower) * 4
      + LoaderInfo.ExportedSymbolCount * 4

\* The bytes [from, to) of the loader section that readExportedSymbol reads
\* for the export at Index.
recordRange(buf, Index) ==
    [from |-> getExportedSymbolTableOffset(buf) + Index * KExportedSymbolSize,
     to |-> getExportedSymbolTableOffset(buf) + Index * KExportedSymbolSize
              + KExportedSymbolSize]

insideLoader(buf, range) == range.from >= 0 /\ range.to <= buf.ContainerLength

\* The name offsets a record read outside the loader section can deliver:
\* whatever bytes lie there.
StrayNameOffsets == {0, 500}

\* PEFObjectFile::getLoaderString on the buffer: the bytes searched for the
\* NUL and whether a string is returned.
loaderStringRead(buf, Offset) ==
    IF Offset >= buf.ContainerLength THEN [reads |-> {}, result |-> "error"]
    ELSE IF buf.nul >= Offset /\ buf.nul < buf.ContainerLength
    THEN [reads |-> {[from |-> Offset, to |-> buf.nul + 1]}, result |-> "ok"]
    ELSE [reads |-> {[from |-> Offset, to |-> buf.ContainerLength]}, result |-> "error"]

\* The outcomes of an accessor that reads the export record at Index and
\* then does `then` with the record's name offset.  A record outside the
\* loader section is read all the same: the read may fault or deliver any
\* bytes.
recordOutcomes(buf, Index, then(_)) ==
    IF insideLoader(buf, recordRange(buf, Index))
    THEN {[reads |-> {recordRange(buf, Index)} \cup then(buf.NameOffset).reads,
           result |-> then(buf.NameOffset).result]}
    ELSE {[reads |-> {recordRange(buf, Index)}, result |-> "fault"]}
           \cup {[reads |-> {recordRange(buf, Index)} \cup then(n).reads,
                   result |-> then(n).result] : n \in StrayNameOffsets}

noFurtherRead(n) == [reads |-> {}, result |-> "ok"]

InitReader ==
    /\ config = ApiConfig(FALSE)
    /\ symtab = EmptyTable
    /\ errors = <<>>
    /\ pc = "buffer"
    /\ lastCall = NoCall
    /\ idx = 1
    /\ files \in {<<buf>> : buf \in ReaderBuffers}
    /\ importLibs = <<>>
    /\ undefinedSymbols = <<>>
    /\ outputSections = <<>>
    /\ output = NoOutput
    /\ result = "running"

\* PEFObjectFile::create
Create ==
    /\ pc = "buffer"
    /\ pc' = IF createAccepts(files[1]) THEN "accepted" ELSE "rejected"
    /\ lastCall' = [op |-> "create"]
    /\ UNCHANGED <<config, symtab, errors, linkVars>>

\* What an accessor call leaves behind: the call, the bytes it read and how
\* it ended.
Accessed(op, Index, o) == [op |-> op, index |-> Index, reads |-> o.reads, result |-> o.result]

\* The accessors that only read the export record: beyond the symbol count
\* they return `otherwise` without reading.
recordOnly(buf, Index, otherwise) ==
    IF Index >= buf.ExportedSymbolCount
    THEN {[reads |-> {}, result |-> otherwise]}
    ELSE recordOutcomes(buf, Index, noFurtherRead)

\* PEFObjectFile::getSymbolName
GetSymbolName ==
    /\ pc = "accepted"
    /\ \E Index \in 0..MaxSymbolIndex :
         \E o \in IF Index >= files[1].ExportedSymbolCount
                   THEN {[reads |-> {}, result |-> "error"]}
                   ELSE recordOutcomes(files[1], Index,
                                       LAMBDA n : loaderStringRead(files[1],
                                                    files[1].LoaderStringsOffset + n)) :
           lastCall' = Accessed("getSymbolName", Index, o)
    /\ UNCHANGED <<config, symtab, errors, pc, linkVars>>

\* PEFObjectFile::getSymbolValueImpl
GetSymbolValue ==
    /\ pc = "accepted"
    /\ \E Index \in 0..MaxSymbolIndex : \E o \in recordOnly(files[1], Index, "zero") :
         lastCall' = Accessed("getSymbolValueImpl", Index, o)
    /\ UNCHANGED <<config, symtab, errors, pc, linkVars>>

\* PEFObjectFile::getSymbolType
GetSymbolType ==
    /\ pc = "accepted"
    /\ \E Index \in 0..MaxSymbolIndex : \E o \in recordOnly(files[1], Index, "unknown") :
         lastCall' = Accessed("getSymbolType", Index, o)
    /\ UNCHANGED <<config, symtab, errors, pc, linkVars>>

\* PEFObjectFile::getSymbolSection
GetSymbolSection ==
    /\ pc = "accepted"
    /\ \E Index \in 0..MaxSymbolIndex : \E o \in recordOnly(files[1], Index, "zero") :
         lastCall' = Accessed("getSymbolSection", Index, o)
    /\ UNCHANGED <<config, symtab, errors, pc, linkVars>>

NextReader ==
    \/ Create
    \/ GetSymbolName
    \/ GetSymbolValue
    \/ GetSymbolType
    \/ GetSymbolSection

SpecReader == InitReader /\ [][NextReader]_vars

(***************************************************************************)
(* Claims about the symbol table (checked under SpecSymtab).               *)
(***************************************************************************)

\* C1: once the entry for a name is Defined or Imported, no call changes its
\* kind or its attributes: the entry of that name stays the same object
\* contents in every later table.
C1_ResolvedIsStable ==
    [][\A n \in DOMAIN symtab.symMap :
          KindOf(symtab, n) \in {DefinedKind, ImportedKind}
          => /\ n \in DOMAIN symtab'.symMap
             /\ EntryOf(symtab', n) = EntryOf(symtab, n)]_vars

\* C2: addDefined on a name that is already Defined reports a duplicate-symbol
\* error exactly when allow_undefined is false, returns the existing symbol,
\* and leaves the table (hence the first definition) unchanged.
C2_DuplicateKeepsFirst ==
    [][(lastCall'.op = "addDefined" /\ KindOf(symtab, lastCall'.name) = DefinedKind)
       => /\ symtab' = symtab
          /\ lastCall'.ret = symtab.symMap[lastCall'.name]
          /\ (~config.allowUndefined
              => errors' = Append(errors, DuplicateError(lastCall'.name)))
          /\ (config.allowUndefined => errors' = errors)]_vars

\* C2 witness: a second, different definition of a Defined name was offered
\* with allow_undefined false; the error is there and the first definition stays.
C2_Witness ==
    /\ lastCall.op = "addDefined"
    /\ lastCall.was = DefinedKind
    /\ ~config.allowUndefined
    /\ errors = <<DuplicateError(lastCall.name)>>
    /\ EntryOf(symtab, lastCall.name).file # lastCall.args.file

\* The symbol object a call of addDefined / addImported supplies.
Supplied(call) ==
    IF call.op = "addDefined"
    THEN MakeDefined(call.name, call.args.file, call.args.value,
                     call.args.sectionIndex, call.args.symbolClass)
    ELSE MakeImported(call.name, call.args.lib, call.args.symbolClass, call.args.weak)

\* C3: addDefined / addImported on a name whose entry is Undefined leaves
\* exactly one entry for the name, of the new kind with the supplied
\* attributes, under the same key and at the same position of symVector;
\* every other entry, and the error log, are unchanged.
C3_ReplaceUndefined ==
    [][(/\ lastCall'.op \in {"addDefined", "addImported"}
        /\ KindOf(symtab, lastCall'.name) = UndefinedKind)
       => LET n == lastCall'.name
              old == symtab.symMap[n]
              p == symtab'.symMap[n]
          IN  /\ DOMAIN symtab'.symMap = DOMAIN symtab.symMap
              /\ EntryOf(symtab', n) = Supplied(lastCall')
              /\ lastCall'.ret = p
              /\ Len(symtab'.symVector) = Len(symtab.symVector)
              /\ \A i \in 1..Len(symtab.symVector) :
                    symtab'.symVector[i] =
                        IF symtab.symVector[i] = old THEN p ELSE symtab.symVector[i]
              /\ Cardinality({i \in 1..Len(symtab'.symVector) :
                                symtab'.arena[symtab'.symVector[i]].name = n}) = 1
              /\ \A m \in (DOMAIN symtab.symMap) \ {n} :
                    /\ symtab'.symMap[m] = symtab.symMap[m]
                    /\ EntryOf(symtab', m) = EntryOf(symtab, m)
              /\ errors' = errors]_vars

\* C3 witness: addDefined has just replaced an Undefined entry that is the
\* first of two entries of symVector.
C3_Witness ==
    /\ lastCall.op = "addDefined"
    /\ lastCall.was = UndefinedKind
    /\ Len(symtab.symVector) = 2
    /\ symtab.symVector[1] = lastCall.ret
    /\ isDefined(symtab.arena[lastCall.ret])

\* C4: addDefined on a name whose entry is Imported reports a duplicate error
\* and leaves the entry Imported.
C4_DefinedOnImported ==
    [][(lastCall'.op = "addDefined" /\ KindOf(symtab, lastCall'.name) = ImportedKind)
       => /\ errors' = Append(errors, DuplicateError(lastCall'.name))
          /\ KindOf(symtab', lastCall'.name) = ImportedKind]_vars

\* The position in the arena of the first object ever created for a name:
\* names enter the table in the order of these positions.
FirstCreated(t, name) ==
    CHOOSE i \in 1..Len(t.arena) :
        /\ t.arena[i].name = name
        /\ \A j \in 1..(i - 1) : t.arena[j].name # name

\* C5: one symbol per name: symMap and symVector hold the same objects, every
\* key maps to an object of that name, no name occurs twice in symVector, and
\* symVector lists the names in the order they were first inserted.
C5_OneSymbolPerName ==
    LET v == symtab.symVector
        m == symtab.symMap
    IN  /\ {m[n] : n \in DOMAIN m} = {v[i] : i \in 1..Len(v)}
        /\ Cardinality(DOMAIN m) = Len(v)
        /\ \A n \in DOMAIN m : symtab.arena[m[n]].name = n
        /\ \A i, j \in 1..Len(v) :
              i # j => symtab.arena[v[i]].name # symtab.arena[v[j]].name
        /\ \A i, j \in 1..Len(v) :
              i < j => FirstCreated(symtab, symtab.arena[v[i]].name)
                         < FirstCreated(symtab, symtab.arena[v[j]].name)

\* C5 witness: two names in the table, the first-inserted one replaced since
\* (its current object was created after the second name's).
C5_Witness ==
    /\ Len(symtab.symVector) = 2
    /\ symtab.symVector[1] > symtab.symVector[2]

(***************************************************************************)
(* Claims about link() (checked under Spec).                               *)
(***************************************************************************)

\* The names in the exported symbol table of a container, read record by
\* record (no hashing involved), and the class a name is exported with.
ExportRecords(disk, name) ==
    {j \in 1..Len(disk.loader.syms) :
        LET n == getLoaderString(disk.loader.strings,
                                 getExportedSymbolNameOffset(disk.loader.syms[j].ClassAndName))
        IN  n.ok /\ n.str = name}

Exports(disk, name) == ExportRecords(disk, name) # {}

ExportClass(disk, name) ==
    getExportedSymbolClass(
        disk.loader.syms[CHOOSE j \in ExportRecords(disk, name) : TRUE].ClassAndName)

\* The search order the command line gives: the strong libraries that were
\* found, in order, then the weak ones, each with its weak flag.
SearchOrder ==
    LET found(names, isWeak) ==
          [i \in 1..Len(SelectSeq(names, LAMBDA n : searchLibrary(n) # "")) |->
             [path |-> searchLibrary(SelectSeq(names, LAMBDA n : searchLibrary(n) # "")[i]),
              weak |-> isWeak]]
    IN  found(config.libraries, FALSE) \o found(config.weakLibraries, TRUE)

\* The positions in the search order of the libraries exporting a name.
Exporting(name) ==
    {k \in 1..Len(SearchOrder) : Exports(LibraryCatalogue[SearchOrder[k].path], name)}

FirstExporting(name) ==
    SearchOrder[CHOOSE k \in Exporting(name) : \A m \in Exporting(name) : k <= m]

\* The names that were Undefined when the import pass began.
UndefinedAtPassStart ==
    {symtab.arena[undefinedSymbols[i]].name : i \in 1..Len(undefinedSymbols)}

\* C6: after the import-resolution pass, a symbol that was Undefined when the
\* pass began is Imported if and only if some loaded shared library exports
\* its name; then its library is the first exporting library in search order
\* (strong libraries in command-line order, then weak ones), its class is the
\* class of that library's export record and its weak flag is that library's.
C6_ImportResolution ==
    pc = "check" =>
      \A name \in UndefinedAtPassStart :
        LET e == EntryOf(symtab, name)
        IN  /\ isImported(e) <=> Exporting(name) # {}
            /\ Exporting(name) = {} => isUndefined(e)
            /\ Exporting(name) # {} =>
                 LET lib == FirstExporting(name)
                 IN  /\ files[e.file].kind = SharedLibraryKind
                     /\ files[e.file].mb = lib.path
                     /\ e.symbolClass = ExportClass(LibraryCatalogue[lib.path], name)
                     /\ e.weak = lib.weak

\* C6 witness: after a pass, one symbol is imported from a strong library,
\* one from a weak library, and one is exported by no library.
C6_Witness ==
    /\ pc = "check"
    /\ \E a, b, c \in UndefinedAtPassStart :
         /\ isImported(EntryOf(symtab, a)) /\ ~EntryOf(symtab, a).weak
         /\ EntryOf(symtab, a).symbolClass = kPEFTVectorSymbol
         /\ isImported(EntryOf(symtab, b)) /\ EntryOf(symtab, b).weak
         /\ isUndefined(EntryOf(symtab, c))

\* The names still Undefined in the table.
StillUndefined == {symtab.arena[p].name : p \in {symtab.symVector[i] :
                      i \in {j \in 1..Len(symtab.symVector) :
                               isUndefined(symtab.arena[symtab.symVector[j]])}}}

Reported(e) == \E i \in 1..Len(errors) : errors[i] = e

AfterCheck == pc \in {"stats", "layout", "relocs", "write", "done"}

\* C7: when no weak library is involved, a symbol still Undefined after the
\* import pass makes the link fail if allow_undefined is false (an
\* undefined-symbol error is reported for it, link() returns failure and no
\* output is written) and is not reported if allow_undefined is true.
C7_UndefinedIsFatal ==
    (config.weakLibraries = <<>> /\ AfterCheck) =>
      \A name \in StillUndefined :
        IF config.allowUndefined
        THEN ~Reported(UndefinedError(name))
        ELSE /\ Reported(UndefinedError(name))
             /\ ~output.committed
             /\ pc = "done" => result = "false"

\* C7 witness: a link without weak libraries has ended in failure with a
\* symbol undefined and nothing written.
C7_Witness ==
    /\ pc = "done"
    /\ config.weakLibraries = <<>>
    /\ ~config.allowUndefined
    /\ StillUndefined # {}
    /\ \A i \in 1..Len(errors) : errors[i].kind = "undefined symbol"
    /\ result = "false"
    /\ ~output.committed

\* C8: weak library miss.  With allow_undefined false, if a symbol an object
\* refers to is defined by no object and the only libraries consulted are
\* weak libraries that do not export it, then (nothing else being wrong) the
\* link succeeds, the symbol stays Undefined and the output's
\* ImportedLibraryCount is 0.
C8_WeakLibraryMiss ==
    ( /\ pc = "done"
      /\ ~config.allowUndefined
      /\ config.libraries = <<>>
      /\ importLibs # <<>>
      /\ StillUndefined # {}
      /\ \A i \in 1..Len(errors) : errors[i].kind = "undefined symbol" )
    => /\ result = "true"
       /\ output.committed
       /\ output.loader.ImportedLibraryCount = 0

\* C9: the output file is committed only if no error has been reported by
\* then, the writer's own errors included, and link() returns success
\* exactly if the error count is zero at the end.
C9_CommitOnlyWithoutErrors ==
    /\ output.committed => errorCount = 0
    /\ pc = "done" => (result = "true" <=> errorCount = 0)
    /\ pc # "done" => (result = "running" /\ ~output.committed)

\* C9 witness: the writer itself failed; nothing was committed and link()
\* returned failure.
C9_Witness ==
    /\ pc = "done"
    /\ errorCount = 1
    /\ errors[1].kind = "failed to write"
    /\ ~output.committed
    /\ result = "false"

\* C10: whatever the configuration (verbose or not), if the entry symbol is
\* absent from the symbol table or is not Defined after resolution, the link
\* reports an error and writes no output.
C10_EntryMustBeDefined ==
    (pc = "done" /\ KindOf(symtab, config.entry) # DefinedKind)
    => (errorCount > 0 /\ ~output.committed)

(***************************************************************************)
(* Claims about the written output.                                        *)
(***************************************************************************)
\* The symbols of the table that import resolution left Imported.
ImportedEntries ==
    {symtab.arena[symtab.symVector[i]] :
       i \in {j \in 1..Len(symtab.symVector) : isImported(symtab.arena[symtab.symVector[j]])}}

\* The libraries that supplied at least one Imported symbol.
SupplyingLibraries == {files[e.file].mb : e \in ImportedEntries}

\* C11: in a written output, every symbol that import resolution turned into
\* Imported from library L is listed in the imported-symbol array inside the
\* run of an ImportedLibrary entry named L, and ImportedLibraryCount is the
\* number of distinct libraries that supplied an Imported symbol.
C11_ImportsGroupedByLibrary ==
    output.committed =>
      /\ \A e \in ImportedEntries :
           \E k \in 1..Len(output.loader.importedLibraries) :
             LET lib == output.loader.importedLibraries[k]
             IN  /\ lib.name = files[e.file].mb
                 /\ \E i \in (lib.firstImportedSymbol + 1)..
                              (lib.firstImportedSymbol + Len(lib.symbols)) :
                       output.loader.importedSymbols[i].name = e.name
      /\ output.loader.ImportedLibraryCount = Cardinality(SupplyingLibraries)

\* The names object file f refers to through by-import instructions of the
\* relocations kept with its sections.
ImportReferences(f) ==
    IF files[f].kind # ObjectKind THEN {}
    ELSE {BufferOf(files[f]).loader.importedSymbols[operandOf(w) + 1] :
            w \in UNION {{files[f].inputSections[k].relocations[j] :
                             j \in 1..Len(files[f].inputSections[k].relocations)} :
                           k \in 1..Len(files[f].inputSections)}
                  \cap {w \in 0..65535 :
                          /\ opcodeOf(w) = kPEFRelocSmByImport
                          /\ operandOf(w) < Len(BufferOf(files[f]).loader.importedSymbols)}}

\* The by-import instructions of a relocation stream (in the streams met
\* here the second word of a two-word instruction is below 1024 and is not
\* mistaken for one).
ByImportWords(instrs) ==
    {i \in 1..Len(instrs) :
       opcodeOf(instrs[i]) \in {kPEFRelocSmByImport, opcodeOf(RelocInstr(kPEFRelocLgByImport, 0))}}

\* Every by-import reference of every object names a symbol that another
\* object defines.
AllReferencesCrossObject ==
    /\ \E f \in 1..Len(files) : ImportReferences(f) # {}
    /\ \A f \in 1..Len(files) : \A name \in ImportReferences(f) :
          /\ KindOf(symtab, name) = DefinedKind
          /\ EntryOf(symtab, name).file # f

\* C12: cross-object resolution.  When the names the objects refer to
\* through import relocations are all defined by other objects, the written
\* output has no by-import instruction in its relocation stream, no
\* imported symbol, no imported library, and TotalImportedSymbolCount = 0.
C12_CrossObjectResolution ==
    (output.committed /\ AllReferencesCrossObject) =>
      /\ ByImportWords(output.loader.relocInstrs) = {}
      /\ output.loader.importedSymbols = <<>>
      /\ output.loader.ImportedLibraryCount = 0
      /\ output.loader.TotalImportedSymbolCount = 0

\* The names the by-import instructions of one input section refer to, in
\* stream order, read from its file's own import table.
ReferencedBy(isec) ==
    [k \in 1..Len(SelectSeq(isec.relocations,
                            LAMBDA w : opcodeOf(w) = kPEFRelocSmByImport)) |->
       BufferOf(files[isec.file]).loader.importedSymbols[
         operandOf(SelectSeq(isec.relocations,
                             LAMBDA w : opcodeOf(w) = kPEFRelocSmByImport)[k]) + 1]]

\* The same for the whole link, in the order the relocation writer walks:
\* output section by output section, member by member.
ReferencedInOrder ==
    Concat([o \in 1..Len(outputSections) |->
              Concat([k \in 1..Len(outputSections[o].inputSections) |->
                        ReferencedBy(outputSections[o].inputSections[k])])])

\* The import indices carried by the by-import instructions of the output.
OutputImportIndices ==
    [k \in 1..Len(SelectSeq(output.loader.relocInstrs,
                            LAMBDA w : opcodeOf(w) = kPEFRelocSmByImport)) |->
       operandOf(SelectSeq(output.loader.relocInstrs,
                           LAMBDA w : opcodeOf(w) = kPEFRelocSmByImport)[k])]

\* C13: in a written output (of a link whose import references all stay
\* imports), every by-import instruction carries the index its symbol has
\* in the output's imported-symbol table, not the index it had in its input
\* file; so every index is below TotalImportedSymbolCount.
C13_ImportIndexRemapped ==
    ( /\ output.committed
      /\ \A k \in 1..Len(ReferencedInOrder) :
            KindOf(symtab, ReferencedInOrder[k]) # DefinedKind )
    => /\ Len(OutputImportIndices) = Len(ReferencedInOrder)
       /\ \A k \in 1..Len(OutputImportIndices) :
            /\ OutputImportIndices[k] < output.loader.TotalImportedSymbolCount
            /\ output.loader.importedSymbols[OutputImportIndices[k] + 1].name
                 = ReferencedInOrder[k]

(***************************************************************************)
(* Claims about layout and section bodies (checked under SpecLayout and    *)
(* Spec).                                                                  *)
(***************************************************************************)
AfterLayout == pc \in {"relocs", "write", "done"}

\* C14: layout monotonicity.  After layout, for any two adjacent input
\* sections A, B of one output section, B starts at or after the end of A
\* and B's virtual address is a multiple of B's alignment, whatever the
\* base address and the members' alignments.
C14_LayoutMonotonicity ==
    AfterLayout =>
      \A o \in 1..Len(outputSections) :
        \A k \in 2..Len(outputSections[o].inputSections) :
          LET A == outputSections[o].inputSections[k - 1]
              B == outputSections[o].inputSections[k]
          IN  /\ B.virtualAddress >= A.virtualAddress + getSize(A)
              /\ B.virtualAddress % getAlignment(B) = 0

\* The Defined symbols of the table.
DefinedEntries ==
    {symtab.arena[symtab.symVector[i]] :
       i \in {j \in 1..Len(symtab.symVector) : isDefined(symtab.arena[symtab.symVector[j]])}}

\* The input sections that were laid out, over all output sections.
LaidOutSections ==
    UNION {{outputSections[o].inputSections[k] :
              k \in 1..Len(outputSections[o].inputSections)} :
           o \in 1..Len(outputSections)}

\* C15: after layout, every Defined symbol with a section index >= 0 has the
\* virtual address of the input section identified by its file and section
\* index, plus its value.
C15_SymbolAddresses ==
    AfterLayout =>
      \A e \in DefinedEntries : \A isec \in LaidOutSections :
        (e.sectionIndex >= 0 /\ isec.file = e.file /\ isec.index = e.sectionIndex)
        => e.virtualAddress = isec.virtualAddress + e.value

\* C15 witness: a link has laid out a symbol with a non-zero value in a
\* section that does not start at 0, and one in a section of another output
\* section.
C15_Witness ==
    /\ pc = "done"
    /\ \E e \in DefinedEntries : \E isec \in LaidOutSections :
         /\ isec.file = e.file /\ isec.index = e.sectionIndex
         /\ e.value > 0 /\ isec.virtualAddress > 0
         /\ isec.header.SectionKind = kPEFCodeSection
         /\ e.virtualAddress = isec.virtualAddress + e.value
    /\ \E e \in DefinedEntries : \E isec \in LaidOutSections :
         /\ isec.file = e.file /\ isec.index = e.sectionIndex
         /\ e.value > 0 /\ isec.virtualAddress > 0
         /\ isec.header.SectionKind = kPEFConstantSection
         /\ e.virtualAddress = isec.virtualAddress + e.value

\* C16: the data output section is placed at base_data aligned up to the
\* section's alignment, wherever the code output ends.
C16_DataAtBaseData ==
    (AfterLayout /\ outputSections[2].inputSections # <<>>)
    => outputSections[2].virtualAddress
         = alignTo(config.baseData, outputSections[2].alignment)

\* The output sections that have members, in output order: the sections of
\* the written file.
PresentSections == SelectSeq(outputSections, LAMBDA osec : osec.inputSections # <<>>)

\* C20: in a written output, the bytes of each input section are at the
\* file offset of its output section plus the distance of its virtual
\* address from the output section's, and no byte lies outside the output
\* section's range [file offset, file offset + size).
C20_BodiesAtAssignedOffsets ==
    output.committed =>
      \A i \in 1..Len(PresentSections) :
        \A k \in 1..Len(PresentSections[i].inputSections) :
          LET isec == PresentSections[i].inputSections[k]
              body == output.bodies[i][k]
              start == output.sections[i].ContainerOffset
          IN  /\ body.file = isec.file /\ body.index = isec.index
              /\ body.at = start + (isec.virtualAddress - PresentSections[i].virtualAddress)
              /\ body.at >= start
              /\ body.at + body.length <= start + output.sections[i].TotalLength

(***************************************************************************)
(* Claims about the relocation stream and the export tables of the output. *)
(***************************************************************************)
\* The instruction words the written output holds for its k-th relocation
\* header.
SectionStream(k) ==
    LET h == output.loader.relocHeaders[k]
    IN  SubSeq(output.loader.relocInstrs, (h.FirstRelocOffset \div 2) + 1,
               (h.FirstRelocOffset \div 2) + h.RelocCount)

\* Decoding a stream and encoding it again from position 0: the decoding
\* loop of processSection run on the stream as an input section at base 0.
reencode(stream) ==
    decodeFrom([MakeRelocWriter(outputSections) EXCEPT !.i = 0, !.pos = 0],
               stream, 0).instructions

\* A stream with every SetPosition pair that is directly followed by
\* another SetPosition pair removed; a pair is told by the word the encoder
\* emits for it.
RECURSIVE Coalesce(_)
Coalesce(stream) ==
    LET isPair(j) == /\ j + 1 <= Len(stream)
                     /\ stream[j] \div 1024 = RelocInstr(kPEFRelocSetPosition, 0) \div 1024
    IN  IF stream = <<>> THEN <<>>
        ELSE IF isPair(1) /\ isPair(3) THEN Coalesce(SubSeq(stream, 3, Len(stream)))
        ELSE IF isPair(1) THEN SubSeq(stream, 1, 2) \o Coalesce(SubSeq(stream, 3, Len(stream)))
        ELSE <<stream[1]>> \o Coalesce(Tail(stream))

\* The positions the encoder emits SetPosition for: the offsets of the
\* members within their output sections.
MemberOffsets ==
    UNION {{outputSections[o].inputSections[k].virtualAddress - outputSections[o].virtualAddress :
              k \in 1..Len(outputSections[o].inputSections)} :
           o \in 1..Len(outputSections)}

\* Import indices that need the two-word form.
LargeImportIndices == {256, 1023}

\* The stream of each relocation header is unchanged, up to coalescable
\* SetPosition pairs, by decoding and encoding it again.
ReencodeIsIdentity ==
    \A k \in 1..Len(output.loader.relocHeaders) :
       Coalesce(reencode(SectionStream(k))) = Coalesce(SectionStream(k))

\* The pairs the encoder emits decode as the instruction they were emitted
\* for, with the operand they were emitted with.
PairsRecognised ==
    /\ \A offset \in MemberOffsets :
         /\ opcodeOf(emitSetPosition(offset)[1]) = kPEFRelocSetPosition
         /\ operandOf(emitSetPosition(offset)[1]) * 65536 + emitSetPosition(offset)[2] = offset
    /\ \A index \in LargeImportIndices :
         /\ opcodeOf(emitByImport(index)[1]) = kPEFRelocLgByImport
         /\ operandOf(emitByImport(index)[1]) * 65536 + emitByImport(index)[2] = index

\* C17: the relocation stream of a written output is unchanged, up to
\* coalescable SetPosition pairs, by decoding it and encoding it again from
\* position 0, and every SetPosition or LgByImport pair the encoder emits
\* decodes as that instruction with that operand.
C17_RelocationIdempotence ==
    (output.committed /\ output.loader.relocHeaders # <<>>)
    => (ReencodeIsIdentity /\ PairsRecognised)

\* The name of the export at index i (1-based) of the written output, read
\* from the string table as findExport reads it.
WrittenExportName(i) == output.loader.exports[i].name

\* C18: in a written output, every export at index i lies in the chain of
\* the slot of its hash word, the key at index i is its hash word, and
\* findExport on the written tables finds it.
C18_OutputHashTable ==
    output.committed =>
      \A i \in 1..output.loader.ExportedSymbolCount :
        LET word == computePEFHash(WrittenExportName(i))
            slot == output.loader.slots[(word % Pow2(output.loader.ExportHashTablePower)) + 1]
        IN  /\ getHashSlotFirstIndex(slot) <= i - 1
            /\ i - 1 < getHashSlotFirstIndex(slot) + getHashSlotChainCount(slot)
            /\ output.loader.keys[i] = word
            /\ findExport([loader |-> output.loader], WrittenExportName(i)) # NotFound

(***************************************************************************)
(* Claims about the export hash (checked under SpecHash).  The reference   *)
(* works on sequences of 32 bits, the least significant bit first.         *)
(***************************************************************************)
WordBits == 32

\* n bits, all b.
RECURSIVE RefFill(_, _)
RefFill(b, n) == IF n = 0 THEN <<>> ELSE <<b>> \o RefFill(b, n - 1)

RefZero == RefFill(0, WordBits)

\* The low n bits of the number c.
RECURSIVE RefBits(_, _)
RefBits(c, n) == IF n = 0 THEN <<>> ELSE <<c % 2>> \o RefBits(c \div 2, n - 1)

RefByte(c) == RefBits(c, 8) \o RefFill(0, WordBits - 8)

\* h << 1 with wrap-around: the top bit is lost.
RefShl1(h) == <<0>> \o SubSeq(h, 1, WordBits - 1)

\* h >> 16, arithmetic: the sign bit fills the top half.
RefSar16(h) == SubSeq(h, 17, WordBits) \o RefFill(h[WordBits], 16)

RECURSIVE RefXorFrom(_, _, _)
RefXorFrom(a, b, k) ==
    IF k > WordBits THEN <<>>
    ELSE <<(a[k] + b[k]) % 2>> \o RefXorFrom(a, b, k + 1)

RefXor(a, b) == RefXorFrom(a, b, 1)

\* a - b in two's complement is a + not(b) + 1, added bit by bit with the
\* carry; the carry out of the top bit is lost.
RECURSIVE RefSubFrom(_, _, _, _)
RefSubFrom(a, b, k, carry) ==
    IF k > WordBits THEN <<>>
    ELSE <<(a[k] + (1 - b[k]) + carry) % 2>>
           \o RefSubFrom(a, b, k + 1, (a[k] + (1 - b[k]) + carry) \div 2)

RefSub(a, b) == RefSubFrom(a, b, 1, 1)

\* One byte: h becomes ((h << 1) - (h >> 16)) XOR c.
RefStep(h, c) == RefXor(RefSub(RefShl1(h), RefSar16(h)), RefByte(c))

\* h after the bytes i.. of name; h is a word of WordBits bits throughout.
RECURSIVE RefLoop(_, _, _)
RefLoop(name, i, h) ==
    IF i > Len(name) \/ Len(h) # WordBits THEN h
    ELSE RefLoop(name, i + 1, RefStep(h, name[i]))

\* The value of the bits k..n of h, bit k counting 2^(k-1).
RECURSIVE RefLowFrom(_, _, _)
RefLowFrom(h, k, n) ==
    IF k > n THEN 0 ELSE h[k] * (2 ^ (k - 1)) + RefLowFrom(h, k + 1, n)

\* (h XOR (h >> 16)) & 0xFFFF
RefFold(h) == RefLowFrom(RefXor(h, RefSar16(h)), 1, 16)

\* C19: the hash word computed for a name is the reference: the name's
\* length in the high 16 bits and, in the low 16 bits, the fold of h, where
\* h starts at 0 and becomes ((h << 1) - (h >> 16)) XOR c for each byte c in
\* wrap-around 32-bit signed arithmetic.
C19_HashMatchesReference ==
    lastCall.op = "computePEFHash" =>
      /\ lastCall.ret \div 65536 = Len(lastCall.name)
      /\ lastCall.ret % 65536 = RefFold(RefLoop(lastCall.name, 1, RefZero))
      /\ computePEFHash(lastCall.name) = lastCall.ret

\* C19 witness: the hash of a name whose hash value ended negative, so that
\* the shifts have wrapped and the right shift has filled in the sign.
C19_Witness ==
    /\ lastCall.op = "computePEFHash"
    /\ Len(lastCall.name) >= 25
    /\ lastCall.hashValue.hi >= 32768
    /\ lastCall.ret = Len(lastCall.name) * 65536
                        + RefFold(RefLoop(lastCall.name, 1, RefZero))

(***************************************************************************)
(* Claims about the container header and the reader.                       *)
(***************************************************************************)
\* C21: in a written output the section count of the container header is
\* the number of section headers written (one per output section with
\* members, one for the loader section), and the instantiated-section count
\* has the same value.
C21_HeaderCounts ==
    output.committed =>
      /\ output.SectionCount = Len(output.sections) + 1
      /\ output.InstSectionCount = output.SectionCount

\* The accessors that read the export record of a symbol index.
SymbolAccessors == {"getSymbolName", "getSymbolValueImpl", "getSymbolType", "getSymbolSection"}

\* C22: on an accepted buffer, an accessor given a symbol index below
\* ExportedSymbolCount reads only bytes of the loader section, and when the
\* export record or the name lies past the loader section's end the call
\* ends in an error and reads nothing there.
C22_ReadsStayInLoaderSection ==
    (/\ pc = "accepted"
     /\ lastCall.op \in SymbolAccessors
     /\ lastCall.index < files[1].ExportedSymbolCount)
    => /\ \A r \in lastCall.reads : insideLoader(files[1], r)
       /\ ~insideLoader(files[1], recordRange(files[1], lastCall.index))
            => lastCall.result = "error"

\* The offset in the written string table at which the name of the i-th
\* imported symbol starts: after the library names and the earlier imports.
WrittenImportNameOffset(i) ==
    Len(output.loader.importedLibraries) * (Len(InterfaceLibName) + 1)
      + NameOffsetOf(output.loader.importedSymbols, i)

\* C23: every imported-symbol word of a written output decodes, with
\* getImportedSymbolClass and getImportedSymbolNameOffset, to the class of
\* the import (TVector) and to the string-table offset of its name.
C23_ImportedSymbolPacking ==
    output.committed =>
      \A i \in 1..Len(output.loader.importedSymbols) :
        /\ getImportedSymbolClass(output.loader.importedSymbols[i].ClassAndName)
             = kPEFTVectorSymbol
        /\ getImportedSymbolNameOffset(output.loader.importedSymbols[i].ClassAndName)
             = WrittenImportNameOffset(i)
        /\ getLoaderString(output.loader.strings, WrittenImportNameOffset(i))
             = [ok |-> TRUE, str |-> output.loader.importedSymbols[i].name]

(***************************************************************************)
(* Claims about relocation streams (checked under SpecReloc).  A stream is *)
(* read as the loader reads it: a two-word instruction is told by its      *)
(* first word as composeSetPosition1st / composeLgByImport1st build it.    *)
(***************************************************************************)
IsFirstWordOf(word, compose(_)) == word \div 1024 = compose(0) \div 1024

IsSetPositionAt(stream, k) ==
    k + 1 <= Len(stream) /\ IsFirstWordOf(stream[k], composeSetPosition1st)

IsLgByImportAt(stream, k) ==
    k + 1 <= Len(stream) /\ IsFirstWordOf(stream[k], composeLgByImport1st)

\* The fixups [at, kind] a stream applies from word k on with the cursor at
\* `cursor`: BySectC / BySectD patch operand + 1 words, the by-import
\* instructions one word, SetPosition moves the cursor, TVector8 advances
\* it by 8 bytes per entry.
RECURSIVE Fixups(_, _, _)
Fixups(stream, k, cursor) ==
    IF k > Len(stream) THEN {}
    ELSE IF IsSetPositionAt(stream, k)
    THEN Fixups(stream, k + 2, operandOf(stream[k]) * 65536 + stream[k + 1])
    ELSE IF IsLgByImportAt(stream, k)
    THEN {[at |-> cursor, kind |-> "import"]} \cup Fixups(stream, k + 2, cursor + 4)
    ELSE IF opcodeOf(stream[k]) = kPEFRelocBySectC
    THEN {[at |-> cursor + 4 * j, kind |-> "code"] : j \in 0..operandOf(stream[k])}
           \cup Fixups(stream, k + 1, cursor + 4 * (operandOf(stream[k]) + 1))
    ELSE IF opcodeOf(stream[k]) = kPEFRelocBySectD
    THEN {[at |-> cursor + 4 * j, kind |-> "data"] : j \in 0..operandOf(stream[k])}
           \cup Fixups(stream, k + 1, cursor + 4 * (operandOf(stream[k]) + 1))
    ELSE IF opcodeOf(stream[k]) = kPEFRelocSmByImport
    THEN {[at |-> cursor, kind |-> "import"]} \cup Fixups(stream, k + 1, cursor + 4)
    ELSE IF opcodeOf(stream[k]) = kPEFRelocTVector8
    THEN Fixups(stream, k + 1, cursor + 8 * (operandOf(stream[k]) + 1))
    ELSE Fixups(stream, k + 1, cursor)

\* The stream the written output holds for output section o (1-based), empty
\* if it has no relocation header.
OutputStreamOf(o) ==
    LET ks == {k \in 1..Len(output.loader.relocHeaders) :
                 output.loader.relocHeaders[k].SectionIndex = o - 1}
    IN  IF ks = {} THEN <<>> ELSE SectionStream(CHOOSE k \in ks : TRUE)

\* C24: every fixup an input section's stream applies at cursor p is applied
\* by the output stream of its output section, with the same kind, at the
\* input section's offset in the output section plus p.
C24_PositionCorrect ==
    output.committed =>
      \A o \in 1..Len(outputSections) :
        \A k \in 1..Len(outputSections[o].inputSections) :
          LET isec == outputSections[o].inputSections[k]
              base == isec.virtualAddress - outputSections[o].virtualAddress
          IN  \A f \in Fixups(getRelocations(isec), 1, 0) :
                [at |-> base + f.at, kind |-> f.kind] \in Fixups(OutputStreamOf(o), 1, 0)

\* The streams without SetPosition and without pass-through instructions.
PlainStream(stream) ==
    \A k \in 1..Len(stream) :
      opcodeOf(stream[k]) \in {kPEFRelocBySectC, kPEFRelocBySectD, kPEFRelocSmByImport}

\* The import indices a stream refers to from word k on: the operand of a
\* SmByImport, (hi << 16) | lo of a LgByImport pair; the second word of a
\* pair is not an instruction.
RECURSIVE ImportIndicesOf(_, _)
ImportIndicesOf(stream, k) ==
    IF k > Len(stream) THEN {}
    ELSE IF IsSetPositionAt(stream, k) THEN ImportIndicesOf(stream, k + 2)
    ELSE IF IsLgByImportAt(stream, k)
    THEN {operandOf(stream[k]) * 65536 + stream[k + 1]} \cup ImportIndicesOf(stream, k + 2)
    ELSE IF opcodeOf(stream[k]) = kPEFRelocSmByImport
    THEN {operandOf(stream[k])} \cup ImportIndicesOf(stream, k + 1)
    ELSE ImportIndicesOf(stream, k + 1)

\* The imported-symbol names the streams of the files read refer to.
NamesReferred ==
    UNION {UNION {{RelocImports[i + 1] :
                     i \in {j \in ImportIndicesOf(files[f].inputSections[k].relocations, 1) :
                              j < Len(RelocImports)}} :
                  k \in 1..Len(files[f].inputSections)} :
           f \in 1..Len(files)}

\* C25: after the object files are parsed, every imported-symbol name that
\* a SmByImport instruction or a LgByImport pair of their streams refers to
\* has an entry in the symbol table, and no entry stems from decoding the
\* second word of a pair: every Undefined entry is a name referred to.
C25_ImportReferencesRegistered ==
    /\ \A name \in NamesReferred : name \in DOMAIN symtab.symMap
    /\ \A name \in DOMAIN symtab.symMap :
         isUndefined(EntryOf(symtab, name)) => name \in NamesReferred

\* The instruction words emitted for output section o (1-based) alone.
WordsOf(o) ==
    processSection(MakeRelocWriter(outputSections), outputSections[o], o - 1).instructions

\* The output sections for which at least one word is emitted, in order.
SectionsWithWords ==
    SelectSeq([o \in 1..Len(outputSections) |-> o], LAMBDA o : WordsOf(o) # <<>>)

\* C27: the relocation headers of a written output are one per output
\* section with instruction words, in section order; each counts the words
\* of its section, starts at twice the number of words of the sections
\* before it, and together the headers cover the instruction area without
\* gap or overlap.  Header k is matched to the k-th section with words by
\* the words its range holds.
C27_RelocationHeaders ==
    output.committed =>
      LET hs == output.loader.relocHeaders
      IN  /\ Len(hs) = Len(SectionsWithWords)
          /\ output.loader.RelocSectionCount = Len(hs)
          /\ \A k \in 1..Len(hs) :
               /\ hs[k].RelocCount = Len(WordsOf(SectionsWithWords[k]))
               /\ hs[k].FirstRelocOffset
                    = IF k = 1 THEN 0 ELSE hs[k - 1].FirstRelocOffset + 2 * hs[k - 1].RelocCount
               /\ SectionStream(k) = WordsOf(SectionsWithWords[k])
          /\ (hs # <<>> => hs[Len(hs)].FirstRelocOffset + 2 * hs[Len(hs)].RelocCount
                              = 2 * Len(output.loader.relocInstrs))
          /\ (hs = <<>> => output.loader.relocInstrs = <<>>)

\* C27 witness: an output with two relocation headers, the second starting
\* behind the words of the first, and an output section without header.
C27_Witness ==
    /\ output.committed
    /\ Len(output.loader.relocHeaders) = 2
    /\ output.loader.relocHeaders[1].RelocCount >= 3
    /\ output.loader.relocHeaders[2].FirstRelocOffset
         = 2 * output.loader.relocHeaders[1].RelocCount
    /\ Len(output.loader.relocInstrs)
         = output.loader.relocHeaders[1].RelocCount + output.loader.relocHeaders[2].RelocCount
    /\ \E o \in 1..Len(outputSections) : WordsOf(o) = <<>>

\* The position of output section o (1-based) among the section headers
\* written: the number of output sections with members before it.
WrittenHeaderIndex(o) ==
    Cardinality({q \in 1..(o - 1) : outputSections[q].inputSections # <<>>})

\* C29: the section index of every relocation header of a written output is
\* the position, among the section headers written, of the output section
\* whose words the header covers.
C29_RelocHeaderSectionIndex ==
    output.committed =>
      \A k \in 1..Len(output.loader.relocHeaders) :
        output.loader.relocHeaders[k].SectionIndex
          = WrittenHeaderIndex(SectionsWithWords[k])

\* The output sections (1-based) holding the input section that a Defined
\* entry names by file and section index.
ContainingSections(e) ==
    {o \in 1..Len(outputSections) :
       \E k \in 1..Len(outputSections[o].inputSections) :
         /\ outputSections[o].inputSections[k].file = e.file
         /\ outputSections[o].inputSections[k].index = e.sectionIndex}

\* A section index and a value designate the bound address of entry e in
\* output coordinates.
DesignatesAddressOf(e, SectionIndex, SymbolValue) ==
    \A o \in ContainingSections(e) :
      /\ SectionIndex = WrittenHeaderIndex(o)
      /\ outputSections[o].virtualAddress + SymbolValue = e.virtualAddress

\* C30: in a written output, every exported-symbol record, and the
\* MainSection/MainOffset pair of the loader header, names the written
\* section header of the output section that contains the symbol and a value
\* that, added to that output section's virtual address, is the symbol's
\* virtual address.
C30_ExportsInOutputCoordinates ==
    output.committed =>
      /\ \A i \in 1..Len(output.loader.exports) : \A e \in DefinedEntries :
           e.name = output.loader.exports[i].name
           => DesignatesAddressOf(e, output.loader.exports[i].SectionIndex,
                                  output.loader.exports[i].SymbolValue)
      /\ \A e \in DefinedEntries :
           e.name = config.entry
           => DesignatesAddressOf(e, output.loader.MainSection, output.loader.MainOffset)

\* The same for the symbols whose input section is the first member of the
\* first output section, placed at the output section's start.
C30_FirstMemberOnly ==
    output.committed =>
      \A i \in 1..Len(output.loader.exports) : \A e \in DefinedEntries :
        (/\ e.name = output.loader.exports[i].name
         /\ e.file = 1 /\ e.sectionIndex = 0)
        => DesignatesAddressOf(e, output.loader.exports[i].SectionIndex,
                               output.loader.exports[i].SymbolValue)

\* The names exported by at least one object file that was parsed.
ExportedByObjects ==
    {name \in {NameMain, NameFoo, NameBar, NameOpt} :
       \E f \in 1..Len(files) :
         files[f].kind = ObjectKind /\ files[f].parsed /\ Exports(BufferOf(files[f]), name)}

\* Every object file of the command line has been read.
AllObjectsParsed == pc # "start" /\ (pc = "read" => idx > Len(config.inputFiles))

\* C28: once all object files are parsed, a name of the table is Defined if
\* and only if some object exports it, whatever the order of the objects
\* that define and reference it; before the import pass every other name is
\* Undefined, and the pass never takes up a name an object defines.
C28_KindIndependentOfOrder ==
    AllObjectsParsed =>
      /\ ExportedByObjects \subseteq DOMAIN symtab.symMap
      /\ \A name \in DOMAIN symtab.symMap :
           /\ isDefined(EntryOf(symtab, name)) <=> name \in ExportedByObjects
           /\ (pc \in {"read", "libs"} /\ name \notin ExportedByObjects)
                => isUndefined(EntryOf(symtab, name))
      /\ (pc = "check" => UndefinedAtPassStart \cap ExportedByObjects = {})

\* C28 witness: the object referring to foo was parsed before the object
\* that defines it, a loaded library exports foo as well, and after the
\* import pass foo is Defined while another name was imported.
C28_Witness ==
    /\ pc = "check"
    /\ config.inputFiles = <<"main.o", "foo.o">>
    /\ Exporting(NameFoo) # {}
    /\ NameFoo \in ImportReferences(1)
    /\ isDefined(EntryOf(symtab, NameFoo))
    /\ EntryOf(symtab, NameFoo).file = 2
    /\ isImported(EntryOf(symtab, NameOpt))

\* The mirrored case: the defining object is parsed first.
C28_WitnessDefinedFirst ==
    /\ pc = "check"
    /\ config.inputFiles = <<"foo.o", "main.o">>
    /\ Exporting(NameFoo) # {}
    /\ NameFoo \in ImportReferences(2)
    /\ isDefined(EntryOf(symtab, NameFoo))
    /\ EntryOf(symtab, NameFoo).file = 1

(***************************************************************************)
(* Claims about findExport (checked under SpecFind).                       *)
(***************************************************************************)

\* The export indices (0-based) in the chain of the slot that the hash word
\* of a name selects.
ChainOf(loader, name) ==
    LET slotValue == loader.slots[SlotOfName(name, loader.ExportHashTablePower) + 1]
    IN  {i \in 0..(loader.ExportedSymbolCount - 1) :
           /\ i >= getHashSlotFirstIndex(slotValue)
           /\ i < getHashSlotFirstIndex(slotValue) + getHashSlotChainCount(slotValue)}

\* The name the export record i (0-based) carries in the string table.
RecordName(loader, i) ==
    getLoaderString(loader.strings, getExportedSymbolNameOffset(loader.syms[i + 1].ClassAndName))

\* The chain entries with the hash word of the name, and those that carry
\* the name as well.
Candidates(loader, name) ==
    {i \in ChainOf(loader, name) : loader.keys[i + 1] = computePEFHash(name)}

Matches(loader, name) ==
    {i \in Candidates(loader, name) :
       RecordName(loader, i).ok /\ RecordName(loader, i).str = name}

\* C26: findExport(name) reports a match if and only if an entry of the
\* chain of the name's slot has the name's hash word as key and the name in
\* the string table; the class it leaves is the class of that record.
C26_FindExportMatches ==
    lastCall.op = "findExport" =>
      /\ lastCall.ret.found <=> Matches(files[1].loader, lastCall.name) # {}
      /\ lastCall.ret.found =>
           \E i \in Matches(files[1].loader, lastCall.name) :
             lastCall.ret.lastSymbolClass
               = getExportedSymbolClass(files[1].loader.syms[i + 1].ClassAndName)

\* C26 witness: "bd" is found behind "ab", an entry of the same chain with
\* the same hash word, and the class left is that of "bd".
C26_Witness ==
    /\ lastCall.op = "findExport"
    /\ lastCall.name = NameBd
    /\ lastCall.ret = [found |-> TRUE, lastSymbolClass |-> kPEFDataSymbol]
    /\ \E i \in Candidates(files[1].loader, NameBd) : \E j \in Matches(files[1].loader, NameBd) :
         i < j /\ RecordName(files[1].loader, i).str = NameAb

\* The lookup of a name that is not exported, in a library that exports a
\* name with the same hash word, finds nothing.
C26_WitnessCollision ==
    /\ lastCall.op = "findExport"
    /\ lastCall.name = NameBd
    /\ ~lastCall.ret.found
    /\ Candidates(files[1].loader, NameBd) # {}

====
